---- MODULE Spec2Model ----
(***************************************************************************)
(* WavePunkOS gesture interpreter (wavepunkos/interpreter/state_machine.py)*)
(* as a state machine: the Interpreter object, driven by process(frame)    *)
(* and set_off(off, t_ms).                                                 *)
(*                                                                         *)
(* Units.  Pinch strengths and confidences are hundredths (0..100), gate   *)
(* thresholds are millionths (so that the adaptation drift is exact to     *)
(* 1e-6), positions are thousandths of the normalized frame, times are     *)
(* milliseconds.  Frames carry x = 0.5 throughout, so every x component    *)
(* of a MOVE is 0 and only the y axis carries state.                       *)
(* Fields of the class that are only written (_pinch_latched,              *)
(* _contact_move_px, _pi_over_ms, _scroll_vel, _scroll_anchor,             *)
(* _last_exit_reason, _last_left_click_up_ms, _dbg_scroll_offset_px) are   *)
(* not carried.  No calibration profile is installed (load_profile()       *)
(* returns None), so the constructor's defaults apply.                     *)
(***************************************************************************)
EXTENDS Integers, Sequences, FiniteSets, TLC

\* ------------------------------------------------------------------ bounds
\* last timestamp a caller passes in
MaxT == 240

\* ------------------------------------------------------------- constants
\* None for the Optional[int] timestamps and positions (all real ones >= 0)
NoneT == -1

FAST_DOWN_DEFAULT == 67
FAST_UP_DEFAULT == 56
PEAK_WINDOW_MS == 70
MIN_HOLD_MS == 80
MIN_PRESS_MS == 55
RC_BLOCK_ARM_MS == 120
RC_BLOCK_CHORD_MS == 180
CHORD_WINDOW_MS == 140
SCROLL_ARM_MS == 140
SCROLL_HOLD_MS == 150
SCROLL_EXIT_BLOCK_MS == 160
SCROLL_ENTER_BLOCK_MS == 140
RING_BLOCK_MS == 120
SETTLE_MS == 60
ADAPT_PERIOD_MS == 5000
MIN_CONF == 55
LOST_TIMEOUT_MS == 120
DRAG_HOLD_MS == 220
MAX_HAND_SPEED_MILLI == 15
HOVER_MIN_CONF == 75
HOVER_EDGE_MILLI == 60
HOVER_DEADZONE_PX == 4
MAX_STEP_Y == 216
MAX_STEP_X == 384
MOVE_DEADZONE_PX == 2
MAX_TICKS_PER_FRAME == 6
SCROLL_DEADZONE_CPX == 1400
PX_PER_TICK_CPX == 2600
CLUTCH_CPX == 26000
CONF_ACT == 45
ADAPT_CONF == 60
\* adaptation.p_on_range and p_off_range, in millionths
P_ON_MIN == 700000
P_ON_MAX == 900000
P_OFF_MIN == 500000
P_OFF_MAX == 750000

\* --------------------------------------------------------------- inputs
\* frame spacings a caller may use (0: two calls with the same t_ms)
DtSet == {40, 120}
\* wall clock readings relative to the frame clock (time.time() in the
\* hover and scroll emitters): in step with it, or ahead of it
WallSkews == {0, 1000}
\* smoothing factors the hover filter can yield (in quarters); the filter
\* runs on wall-clock intervals, so the factor is not a function of frames
HoverAlphas == {1, 3}

Abs(x) == IF x < 0 THEN -x ELSE x
Max(a, b) == IF a >= b THEN a ELSE b
Min(a, b) == IF a <= b THEN a ELSE b
\* int(x / d) of Python for x / d a float: truncation toward zero
TruncDiv(x, d) == IF x >= 0 THEN x \div d ELSE -((-x) \div d)
\* round(x / d): nearest integer, ties to even as Python's round does
RoundDiv(x, d) ==
    LET q == Abs(x) \div d
        r == Abs(x) % d
        m == IF 2 * r > d THEN q + 1
             ELSE IF 2 * r < d THEN q
             ELSE IF q % 2 = 0 THEN q ELSE q + 1
    IN  IF x >= 0 THEN m ELSE -m

\* --------------------------------------------------------------- events
ModeEv(t, st) == [t |-> t, type |-> "MODE", mode |-> st]
ButtonEv(t, nm, act) == [t |-> t, type |-> "BUTTON", name |-> nm, action |-> act]
MoveEv(t, dx, dy) == [t |-> t, type |-> "MOVE", dx |-> dx, dy |-> dy]
ScrollEv(t, dx, dy) == [t |-> t, type |-> "SCROLL", dx |-> dx, dy |-> dy]

IsButton(e, nm, act) == e.type = "BUTTON" /\ e.name = nm /\ e.action = act
IsMode(e, st) == e.type = "MODE" /\ e.mode = st
IsLeftUp(e) == IsButton(e, "LEFT", "UP")
IsLeftDown(e) == IsButton(e, "LEFT", "DOWN")
IsLeftClick(e) == IsButton(e, "LEFT", "CLICK")
IsLost(e) == IsMode(e, "LOST")
IsMove(e) == e.type = "MOVE"
IsScroll(e) == e.type = "SCROLL"
IsDown(e) == e.type = "BUTTON" /\ e.action = "DOWN"
IsDrag(e) == IsMode(e, "DRAG")
IsAnyMode(e) == e.type = "MODE"

\* core.types.Mode
Modes == {"IDLE", "CONTACT", "DRAG", "SCROLL", "DRAG_SCROLL", "LOST", "OFF"}

\* ---------------------------------------------------------------- hands
NoHand == [hand_id |-> 0, present |-> FALSE, confidence |-> 0, y |-> 0,
           index |-> 0, middle |-> 0, ring |-> 0]

\* the pinch postures frames take: open hand, half and full index pinch,
\* full middle pinch, index with middle
Postures == {<<0, 0, 0>>, <<60, 0, 0>>, <<100, 0, 0>>, <<0, 100, 0>>,
             <<100, 100, 0>>}

Obs(c, y, p) == [hand_id |-> 1, present |-> TRUE, confidence |-> c, y |-> y,
                 index |-> p[1], middle |-> p[2], ring |-> p[3]]

Observations ==
    {Obs(90, 500, p) : p \in Postures}
    \cup {Obs(90, 540, <<0, 0, 0>>), Obs(90, 540, <<100, 0, 0>>)}
    \cup {Obs(30, 500, <<0, 0, 0>>)}
    \cup {[hand_id |-> 1, present |-> FALSE, confidence |-> 0, y |-> 500,
           index |-> 0, middle |-> 0, ring |-> 0]}

\* frame.hands: no observation, or one
HandLists == {<<>>} \cup {<<h>> : h \in Observations}

RECURSIVE SelectFrom(_, _)
SelectFrom(hands, best) ==
    IF hands = <<>> THEN best
    ELSE LET h == Head(hands)
         IN  IF ~h.present THEN SelectFrom(Tail(hands), best)
             ELSE IF best.hand_id = 0 \/ h.confidence > best.confidence
                  THEN SelectFrom(Tail(hands), h)
                  ELSE SelectFrom(Tail(hands), best)

select_hand(hands) == SelectFrom(hands, NoHand)

is_valid(hand) == hand.hand_id # 0 /\ hand.present /\ hand.confidence >= MIN_CONF

\* ---------------------------------------------------- debounced hysteresis
Gate(pon, poff, ton, toff) ==
    [p_on |-> pon, p_off |-> poff, t_on_ms |-> ton, t_off_ms |-> toff,
     state |-> FALSE, candidate_since_ms |-> NoneT, candidate_target |-> "None"]

BoolName(b) == IF b THEN "True" ELSE "False"

\* _DebouncedHysteresis.update, the state the value asks for (value in
\* hundredths, thresholds in millionths)
GateTarget(g, value) ==
    IF g.state THEN ~(value * 10000 <= g.p_off) ELSE value * 10000 >= g.p_on

\* candidate bookkeeping that keeps the dwell timer when the value falls back
GateCommit_keeps_timer(g, target, t) ==
    IF target = g.state
    THEN g
    ELSE LET since == IF g.candidate_target # BoolName(target)
                      THEN t ELSE g.candidate_since_ms
         IN  IF t - since >= (IF target THEN g.t_on_ms ELSE g.t_off_ms)
             THEN [g EXCEPT !.state = target, !.candidate_since_ms = NoneT,
                            !.candidate_target = "None"]
             ELSE [g EXCEPT !.candidate_since_ms = since,
                            !.candidate_target = BoolName(target)]

\* _DebouncedHysteresis.update, the candidate bookkeeping for that target
GateCommit(g, target, t) ==
    IF target = g.state
    THEN [g EXCEPT !.candidate_since_ms = NoneT, !.candidate_target = "None"]
    ELSE LET since == IF g.candidate_target # BoolName(target)
                      THEN t ELSE g.candidate_since_ms
         IN  IF t - since >= (IF target THEN g.t_on_ms ELSE g.t_off_ms)
             THEN [g EXCEPT !.state = target, !.candidate_since_ms = NoneT,
                            !.candidate_target = "None"]
             ELSE [g EXCEPT !.candidate_since_ms = since,
                            !.candidate_target = BoolName(target)]

\* _DebouncedHysteresis.update: the gate after the update (.state is the
\* value returned)
GateUpdate(g, value, t) == GateCommit(g, GateTarget(g, value), t)

\* ------------------------------------------------------------ One Euro
\* LowPass pair and clock of a OneEuro instance; values in 1e-5 of the frame
NewFilter == [x |-> 0, x_init |-> FALSE, dx |-> 0, dx_init |-> FALSE, last_t |-> NoneT]

FilterReset(f) == [f EXCEPT !.x_init = FALSE, !.dx_init = FALSE, !.last_t = NoneT]

\* _alpha(cutoff, dt) in 1e-4: 1 / (1 + tau / dt) with tau = 1 / (2 pi cutoff),
\* that is w / (1 + w) for w = 2 pi cutoff dt; cutoff in hundredths of a
\* hertz, dt in tenths of a millisecond, w6 is w in 1e-6
Alpha4(cutoff_c, dt_d) ==
    LET w6 == (((6283 * dt_d) \div 100) * cutoff_c) \div 10
    IN  10000 - (1000000000 \div ((w6 + 1000000) \div 10))

\* OneEuro.apply, the filtered derivative (dt_d: dt in tenths of a ms)
OneEuroDerivative(f, x, dt_d) ==
    \* derivative in thousandths of the frame per second, then its low pass
    LET dx == TruncDiv((x - (IF f.x_init THEN f.x ELSE x)) * 100, dt_d)
    IN  IF f.dx_init
        THEN f.dx + TruncDiv(Alpha4(100, dt_d) * TruncDiv(dx - f.dx, 100), 100)
        ELSE dx

\* OneEuro.apply, the sample smoothed under the speed-dependent cutoff
OneEuroSmooth(f, x, t, dt_d, edx) ==
    \* cutoff 2.0 + 0.06 * |edx|, in hundredths of a hertz
    [f EXCEPT !.last_t = t,
              !.x = IF f.x_init
                    THEN f.x + TruncDiv(Alpha4(200 + ((6 * Abs(edx)) \div 1000), dt_d)
                                        * (x - f.x), 10000)
                    ELSE x,
              !.x_init = TRUE, !.dx = edx, !.dx_init = TRUE]

\* OneEuro.apply, a sample after the first
OneEuroStep(f, x, t, dt_d) == OneEuroSmooth(f, x, t, dt_d, OneEuroDerivative(f, x, dt_d))

\* OneEuro.apply(x, t) on the frame clock (t in ms), parameters of
\* preset.pos_filter: min_cutoff 2.0, beta 0.06, d_cutoff 1.0
OneEuroApply(f, x, t) ==
    IF f.last_t = NoneT
    THEN [f EXCEPT !.last_t = t, !.x = x, !.x_init = TRUE, !.dx_init = FALSE]
    ELSE OneEuroStep(f, x, t, Max(1, (t - f.last_t) * 10))

\* LowPass of a hover delta filter (_hover_fdy), value in thousandths of a
\* pixel.  The filter is clocked by time.time(), so only "initialized or
\* not" and the held value are state; the smoothing factor is an input.
NewHoverFilter == [x |-> 0, init |-> FALSE]

HoverFilterReset(f) == [f EXCEPT !.init = FALSE]

\* OneEuro.apply(x) on the wall clock: the raw value on the first sample
\* after a reset, else a * x + (1 - a) * held with a = quarters / 4
HoverFilterApply(f, x, quarters) ==
    IF ~f.init THEN [x |-> x, init |-> TRUE]
    ELSE [x |-> f.x + TruncDiv(quarters * (x - f.x), 4), init |-> TRUE]

\* ------------------------------------------------------- the Interpreter
\* Interpreter.__init__
NewInterpreter ==
    [mode |-> "IDLE", off |-> FALSE,
     fast_down |-> FAST_DOWN_DEFAULT, fast_up |-> FAST_UP_DEFAULT,
     conf_recog |-> MIN_CONF,
     index |-> Gate(620000, 520000, 60, 60),
     middle |-> Gate(780000, 620000, 70, 70),
     ring |-> Gate(780000, 620000, 70, 70),
     last_frame_t |-> NoneT, last_good_t |-> NoneT, prev_pos |-> NoneT,
     anchor_hand |-> NoneT, anchor_cursor |-> 0, cursor |-> 0,
     contact_start_ms |-> NoneT, contact_down_ms |-> NoneT,
     idx_down_ms |-> NoneT, mid_down_ms |-> NoneT, rc_block_until |-> 0,
     left_down |-> FALSE,
     scroll_remainder |-> 0, scroll_anchor_y |-> NoneT, scroll_last_t |-> NoneT,
     scroll_hold_until |-> 0, invert_y |-> FALSE,
     last_adapt_ms |-> NoneT,
     hover_prev |-> NoneT, hover_fdy |-> NewHoverFilter, hover_block_until |-> 0,
     fast_left_latched |-> FALSE, pi_peak |-> 0, pi_peak_t |-> NoneT,
     fast_latch_start_ms |-> NoneT,
     pos_fdy |-> NewFilter, click_settle_until |-> 0]

\* what a method leaves behind: the object and the events it returns
R(s, out) == [s |-> s, out |-> out]

\* Interpreter._clear_contact
clear_contact(s) == [s EXCEPT !.anchor_hand = NoneT, !.contact_start_ms = NoneT]

\* the hover reset that _enter_lost, _enter_off and an invalid frame share
hover_reset(s) ==
    [s EXCEPT !.hover_prev = NoneT, !.hover_fdy = HoverFilterReset(s.hover_fdy)]

\* Interpreter._is_calm: the object (prev_pos recorded) and the verdict
is_calm(s, hand, t) ==
    IF s.prev_pos = NoneT \/ s.last_frame_t = NoneT
    THEN [s |-> [s EXCEPT !.prev_pos = hand.y], calm |-> TRUE]
    ELSE [s |-> [s EXCEPT !.prev_pos = hand.y],
          calm |-> Abs(hand.y - s.prev_pos) <= MAX_HAND_SPEED_MILLI]

\* _enter_contact that announces a pass through IDLE first
enter_contact_via_idle(s, hand, t) ==
    R([s EXCEPT !.mode = "CONTACT", !.anchor_hand = hand.y,
                !.anchor_cursor = s.cursor, !.contact_start_ms = t,
                !.contact_down_ms = t, !.click_settle_until = t + SETTLE_MS,
                !.left_down = TRUE],
      <<ModeEv(t, "IDLE"), ModeEv(t, "CONTACT"), ButtonEv(t, "LEFT", "DOWN")>>)

\* Interpreter._enter_contact
enter_contact(s, hand, t) ==
    R([s EXCEPT !.mode = "CONTACT", !.anchor_hand = hand.y,
                !.anchor_cursor = s.cursor, !.contact_start_ms = t,
                !.contact_down_ms = t, !.click_settle_until = t + SETTLE_MS,
                !.left_down = TRUE],
      <<ModeEv(t, "CONTACT"), ButtonEv(t, "LEFT", "DOWN")>>)

\* timestamp of a release under the minimum press duration
release_t(s, t) ==
    IF s.contact_down_ms # NoneT THEN Max(t, s.contact_down_ms + MIN_PRESS_MS) ELSE t

\* _exit_contact that forgets the release of LEFT
exit_contact_norelease(s, hand, t, calm) ==
    LET s1 == [s EXCEPT !.contact_down_ms = NoneT, !.fast_left_latched = FALSE,
                        !.pi_peak = 0, !.pi_peak_t = NoneT, !.mode = "IDLE"]
    IN  R(clear_contact(s1), <<ModeEv(t, "IDLE")>>)

\* Interpreter._exit_contact
exit_contact(s, hand, t, calm) ==
    LET up == IF s.left_down THEN <<ButtonEv(release_t(s, t), "LEFT", "UP")>> ELSE <<>>
        s1 == [s EXCEPT !.left_down = FALSE, !.contact_down_ms = NoneT,
                        !.fast_left_latched = FALSE, !.pi_peak = 0,
                        !.pi_peak_t = NoneT, !.mode = "IDLE"]
    IN  R(clear_contact(s1), up \o <<ModeEv(t, "IDLE")>>)

\* Interpreter._enter_drag
enter_drag(s, t) ==
    IF s.mode # "CONTACT" \/ s.left_down THEN R(s, <<>>)
    ELSE R([s EXCEPT !.mode = "DRAG", !.left_down = TRUE],
           <<ModeEv(t, "DRAG"), ButtonEv(t, "LEFT", "DOWN")>>)

\* Interpreter._exit_drag
exit_drag(s, t) ==
    LET up == IF s.left_down THEN <<ButtonEv(release_t(s, t), "LEFT", "UP")>> ELSE <<>>
        s1 == [s EXCEPT !.left_down = FALSE, !.fast_left_latched = FALSE,
                        !.mode = "IDLE"]
    IN  R(clear_contact(s1), up \o <<ModeEv(t, "IDLE")>>)

\* _enter_scroll without the hover grace
enter_scroll_unblocked(s, hand, t) ==
    R([s EXCEPT !.mode = "SCROLL", !.hover_prev = NoneT,
                !.scroll_anchor_y = 108 * hand.y, !.scroll_remainder = 0,
                !.scroll_last_t = t],
      <<ModeEv(t, "SCROLL")>>)

\* Interpreter._enter_scroll; the anchor is kept in hundredths of a pixel
enter_scroll(s, hand, t) ==
    R([s EXCEPT !.mode = "SCROLL", !.hover_prev = NoneT,
                !.scroll_anchor_y = 108 * hand.y, !.scroll_remainder = 0,
                !.scroll_last_t = t, !.hover_block_until = t + SCROLL_ENTER_BLOCK_MS],
      <<ModeEv(t, "SCROLL")>>)

\* _enter_lost without the safety release of LEFT
enter_lost_keeps_left(s, t) ==
    LET s1 == [s EXCEPT !.fast_left_latched = FALSE,
                        !.pi_peak = 0, !.pi_peak_t = NoneT, !.mode = "IDLE"]
    IN  R(hover_reset(clear_contact(s1)),
          <<ModeEv(t, "LOST"), ModeEv(t, "IDLE")>>)

\* Interpreter._enter_lost
enter_lost(s, t) ==
    LET up == IF s.left_down THEN <<ButtonEv(t, "LEFT", "UP")>> ELSE <<>>
        s1 == [s EXCEPT !.left_down = FALSE, !.fast_left_latched = FALSE,
                        !.pi_peak = 0, !.pi_peak_t = NoneT, !.mode = "IDLE"]
    IN  R(hover_reset(clear_contact(s1)),
          up \o <<ModeEv(t, "LOST"), ModeEv(t, "IDLE")>>)

\* _enter_off that leaves the fast click latch set
enter_off_keeps_latch(s, t) ==
    LET up == IF s.left_down THEN <<ButtonEv(t, "LEFT", "UP")>> ELSE <<>>
        s1 == [s EXCEPT !.left_down = FALSE, !.mode = "OFF"]
    IN  R(hover_reset(clear_contact(s1)), up \o <<ModeEv(t, "OFF")>>)

\* Interpreter._enter_off
enter_off(s, t) ==
    LET up == IF s.left_down THEN <<ButtonEv(t, "LEFT", "UP")>> ELSE <<>>
        s1 == [s EXCEPT !.left_down = FALSE, !.fast_left_latched = FALSE,
                        !.mode = "OFF"]
    IN  R(hover_reset(clear_contact(s1)), up \o <<ModeEv(t, "OFF")>>)

\* ------------------------------------------------------------- emitters
\* _emit_move, the step under the deadzone but without the cap
emit_step_uncapped(s1, step, t) ==
    IF Abs(step) <= MOVE_DEADZONE_PX THEN R(s1, <<>>)
    ELSE R([s1 EXCEPT !.cursor = s1.cursor + step], <<MoveEv(t, 0, step)>>)

\* _emit_move, the step under the deadzone and the cap
emit_step(s1, step, t) ==
    IF Abs(step) <= MOVE_DEADZONE_PX THEN R(s1, <<>>)
    ELSE R([s1 EXCEPT !.cursor = s1.cursor + Max(-MAX_STEP_Y, Min(MAX_STEP_Y, step))],
           <<MoveEv(t, 0, Max(-MAX_STEP_Y, Min(MAX_STEP_Y, step)))>>)

\* the step toward the target: (y - ay) * screen_h * sensitivity is taken
\* in thousandths of a pixel, f is the filter after the sample
emit_filtered(s, f, t) ==
    emit_step([s EXCEPT !.pos_fdy = f],
              (s.anchor_cursor - s.cursor)
                  + RoundDiv((f.x - s.anchor_hand * 100) * 27, 1000),
              t)

\* Interpreter._emit_move (y axis; sensitivity 2.5, screen height 1080)
emit_move(s, hand, t) ==
    IF s.anchor_hand = NoneT THEN R(s, <<>>)
    ELSE emit_filtered(s, OneEuroApply(s.pos_fdy, hand.y * 100, t), t)

\* _maybe_emit_scroll, whole ticks taken out of the remainder rem
\* the emission without the per-frame clamp
scroll_emit_unclamped(s2, rem, wall) ==
    IF TruncDiv(rem, PX_PER_TICK_CPX) = 0
    THEN R([s2 EXCEPT !.scroll_remainder = rem], <<>>)
    ELSE R([s2 EXCEPT !.scroll_remainder = rem % PX_PER_TICK_CPX],
           <<ScrollEv(wall, 0, TruncDiv(rem, PX_PER_TICK_CPX))>>)

scroll_emit(s2, rem, wall) ==
    IF TruncDiv(rem, PX_PER_TICK_CPX) = 0
    THEN R([s2 EXCEPT !.scroll_remainder = rem], <<>>)
    ELSE LET ticks == Max(-MAX_TICKS_PER_FRAME,
                          Min(MAX_TICKS_PER_FRAME, TruncDiv(rem, PX_PER_TICK_CPX)))
         IN  R([s2 EXCEPT !.scroll_remainder = rem - ticks * PX_PER_TICK_CPX],
               <<ScrollEv(wall, 0, ticks)>>)

\* the ticks with the sign of the offset
scroll_ticks_flipped(s2, offset, wall) ==
    IF Abs(offset) <= SCROLL_DEADZONE_CPX THEN R(s2, <<>>)
    ELSE scroll_emit(s2,
                     s2.scroll_remainder
                         + (IF (offset < 0) # s2.invert_y THEN -1 ELSE 1)
                           * (Abs(offset) - SCROLL_DEADZONE_CPX),
                     wall)

\* the offset from the (clutched) anchor turned into ticks; moving up
\* scrolls with sign +1 unless invert_y
scroll_ticks(s2, offset, wall) ==
    IF Abs(offset) <= SCROLL_DEADZONE_CPX THEN R(s2, <<>>)
    ELSE scroll_emit(s2,
                     s2.scroll_remainder
                         + (IF (offset < 0) # s2.invert_y THEN 1 ELSE -1)
                           * (Abs(offset) - SCROLL_DEADZONE_CPX),
                     wall)

\* the offset recomputed against the anchor that the clutch may have moved
scroll_offset(s2, y, wall) == scroll_ticks(s2, y - s2.scroll_anchor_y, wall)

\* the anchor dragged along once the offset exceeds the clutch
scroll_clutch(s1, y, off0, wall) ==
    scroll_offset(IF Abs(off0) > CLUTCH_CPX
                  THEN [s1 EXCEPT !.scroll_anchor_y =
                                      s1.scroll_anchor_y
                                      + (Abs(off0) - CLUTCH_CPX)
                                        * (IF off0 > 0 THEN 1 ELSE -1)]
                  ELSE s1,
                  y, wall)

\* Interpreter._maybe_emit_scroll with _ev_scroll; wall is the reading of
\* time.time() that stamps the event.  Offsets are hundredths of a pixel,
\* the remainder is in 1/2600 of a tick.
maybe_emit_scroll(s, hand, t, wall) ==
    IF s.scroll_last_t = NoneT
    THEN R([s EXCEPT !.scroll_last_t = t,
                     !.scroll_anchor_y = IF s.scroll_anchor_y = NoneT /\ hand.hand_id # 0
                                         THEN 108 * hand.y ELSE s.scroll_anchor_y],
           <<>>)
    ELSE IF hand.hand_id = 0 \/ hand.confidence < CONF_ACT
    THEN R([s EXCEPT !.scroll_last_t = t], <<>>)
    ELSE IF s.scroll_anchor_y = NoneT
    THEN R([s EXCEPT !.scroll_last_t = t, !.scroll_anchor_y = 108 * hand.y], <<>>)
    ELSE scroll_clutch([s EXCEPT !.scroll_last_t = t], 108 * hand.y,
                       108 * hand.y - s.scroll_anchor_y, wall)

\* Interpreter._hover_ok (x = 0.5 lies inside the margins)
hover_ok(h) ==
    /\ h.present
    /\ h.confidence >= HOVER_MIN_CONF
    /\ h.y >= HOVER_EDGE_MILLI
    /\ h.y <= 1000 - HOVER_EDGE_MILLI

\* _maybe_emit_hover_move, the delta capped, snapped and emitted
hover_emit(s1, d, wall) ==
    IF d = 0 THEN R(s1, <<>>)
    ELSE IF Abs(TruncDiv(Max(-MAX_STEP_Y * 1000, Min(MAX_STEP_Y * 1000, d)), 1000)) <= 1
    THEN R(s1, <<>>)
    ELSE R(s1, <<MoveEv(wall, 0, TruncDiv(Max(-MAX_STEP_Y * 1000,
                                               Min(MAX_STEP_Y * 1000, d)), 1000))>>)

\* the adaptive deadzone on a delta that passed the fixed ones
hover_adaptive(d) ==
    IF Abs(d) < (IF Abs(d) > 8000 THEN 2000 ELSE 4000) THEN 0 ELSE d

\* the hover deadzone, then the 2 px floor
hover_deadzone(x) ==
    IF Abs(x) < HOVER_DEADZONE_PX * 1000 THEN 0
    ELSE IF Abs(x) < 2000 THEN 0 ELSE x

\* _maybe_emit_hover_move, f being the delta filter after the sample
hover_filtered(s, h, f, wall) ==
    hover_emit([s EXCEPT !.hover_fdy = f, !.hover_prev = h.y],
               hover_adaptive(hover_deadzone(f.x)), wall)

\* Interpreter._maybe_emit_hover_move (y axis; hover.sensitivity 2.2);
\* deltas in thousandths of a pixel
maybe_emit_hover_move(s, h, wall, quarters) ==
    IF ~hover_ok(h) THEN R(hover_reset(s), <<>>)
    ELSE IF s.hover_prev = NoneT THEN R([s EXCEPT !.hover_prev = h.y], <<>>)
    ELSE hover_filtered(s, h,
                        HoverFilterApply(s.hover_fdy, (h.y - s.hover_prev) * 2376,
                                         quarters),
                        wall)

\* _maybe_adapt without the clamps to p_on_range and p_off_range
maybe_adapt_unclamped(s, hand, t) ==
    IF s.last_adapt_ms = NoneT THEN [s EXCEPT !.last_adapt_ms = t]
    ELSE LET dt == t - s.last_adapt_ms
         IN  IF dt < ADAPT_PERIOD_MS THEN s
             ELSE LET shift == dt \div 6
                      dir == IF 2 * hand.index * 10000 > s.index.p_on + s.index.p_off
                             THEN 1 ELSE -1
                  IN  [s EXCEPT !.index.p_on = s.index.p_on + dir * shift,
                                !.index.p_off = s.index.p_off + dir * shift,
                                !.last_adapt_ms = t]

\* _maybe_adapt without the 5 s period between adaptation steps
maybe_adapt_eager(s, hand, t) ==
    IF s.last_adapt_ms = NoneT THEN [s EXCEPT !.last_adapt_ms = t]
    ELSE LET shift == (t - s.last_adapt_ms) \div 6
             dir == IF 2 * hand.index * 10000 > s.index.p_on + s.index.p_off
                    THEN 1 ELSE -1
         IN  [s EXCEPT !.index.p_on =
                           Max(P_ON_MIN, Min(P_ON_MAX, s.index.p_on + dir * shift)),
                       !.index.p_off =
                           Max(P_OFF_MIN, Min(P_OFF_MAX, s.index.p_off + dir * shift)),
                       !.last_adapt_ms = t]

\* Interpreter._maybe_adapt (adaptation.enabled, max_shift_per_min 0.01,
\* p_on_range [0.70, 0.90], p_off_range [0.50, 0.75])
maybe_adapt(s, hand, t) ==
    IF s.last_adapt_ms = NoneT THEN [s EXCEPT !.last_adapt_ms = t]
    ELSE LET dt == t - s.last_adapt_ms
         IN  IF dt < ADAPT_PERIOD_MS THEN s
             ELSE LET shift == dt \div 6   \* 0.01 * dt / 60000, in millionths
                      dir == IF 2 * hand.index * 10000 > s.index.p_on + s.index.p_off
                             THEN 1 ELSE -1
                  IN  [s EXCEPT !.index.p_on =
                                    Max(P_ON_MIN, Min(P_ON_MAX, s.index.p_on + dir * shift)),
                                !.index.p_off =
                                    Max(P_OFF_MIN, Min(P_OFF_MAX, s.index.p_off + dir * shift)),
                                !.last_adapt_ms = t]

\* ------------------------------------------------------------ set_off
\* set_off that announces IDLE on every switch-on, whatever the mode
set_off_always_idle(s, off, t) ==
    LET s1 == [s EXCEPT !.off = off]
    IN  IF off THEN enter_off(s1, t)
        ELSE R([s1 EXCEPT !.mode = "IDLE"], <<ModeEv(t, "IDLE")>>)

\* Interpreter.set_off
set_off(s, off, t) ==
    LET s1 == [s EXCEPT !.off = off]
    IN  IF off THEN enter_off(s1, t)
        ELSE IF s1.mode = "OFF"
             THEN R([s1 EXCEPT !.mode = "IDLE"], <<ModeEv(t, "IDLE")>>)
             ELSE R(s1, <<>>)

\* ------------------------------------------------------------ process
\* what process leaves behind: the object, the events returned, and
\* whether the call ended in an exception instead of returning
P(s, out, raised) == [s |-> s, out |-> out, raised |-> raised]

\* process, the chord timestamps stamped from the updated gates
chord_stamps(s1, hand, t) ==
    [s1 EXCEPT !.idx_down_ms = IF hand.hand_id # 0 /\ s1.index.state
                               THEN (IF s1.idx_down_ms = NoneT THEN t ELSE s1.idx_down_ms)
                               ELSE NoneT,
               !.mid_down_ms = IF hand.hand_id # 0 /\ s1.middle.state
                               THEN (IF s1.mid_down_ms = NoneT THEN t ELSE s1.mid_down_ms)
                               ELSE NoneT]

\* process, the pre-update of the three gates and the chord timestamps
update_gates(s, hand, t) ==
    chord_stamps(IF hand.hand_id # 0
                 THEN [s EXCEPT !.index = GateUpdate(s.index, hand.index, t),
                                !.middle = GateUpdate(s.middle, hand.middle, t),
                                !.ring = GateUpdate(s.ring, hand.ring, t)]
                 ELSE s,
                 hand, t)

\* a running peak that is never restarted
track_peak_unwindowed(s, pi, t) ==
    [s EXCEPT !.pi_peak = Max(IF s.pi_peak_t = NoneT THEN 0 ELSE s.pi_peak, pi),
              !.pi_peak_t = IF s.pi_peak_t = NoneT THEN t ELSE s.pi_peak_t]

\* process, the running peak of the index pinch
track_peak(s, pi, t) ==
    LET restart == s.pi_peak_t = NoneT \/ (t - s.pi_peak_t) > PEAK_WINDOW_MS
        peak0 == IF restart THEN 0 ELSE s.pi_peak
    IN  [s EXCEPT !.pi_peak = Max(peak0, pi),
                  !.pi_peak_t = IF restart THEN t ELSE s.pi_peak_t]

\* the unlatch rule without the minimum hold
unlatch_nohold(s, pi, t) ==
    IF ~s.fast_left_latched THEN [s |-> s, pinching |-> FALSE]
    ELSE IF pi <= s.fast_up
         THEN [s |-> [s EXCEPT !.fast_left_latched = FALSE,
                               !.fast_latch_start_ms = NoneT],
               pinching |-> FALSE]
         ELSE [s |-> s, pinching |-> TRUE]

\* process, the unlatch rule: the object and the value of "pinching"
unlatch(s, pi, t) ==
    IF ~s.fast_left_latched THEN [s |-> s, pinching |-> FALSE]
    ELSE LET can_unlatch == IF s.fast_latch_start_ms # NoneT
                            THEN (t - s.fast_latch_start_ms) >= MIN_HOLD_MS
                            ELSE TRUE
         IN  IF pi <= s.fast_up /\ can_unlatch
             THEN [s |-> [s EXCEPT !.fast_left_latched = FALSE,
                                   !.fast_latch_start_ms = NoneT],
                   pinching |-> FALSE]
             ELSE [s |-> s, pinching |-> TRUE]

\* a branch of the IDLE block: its result, and whether it returned from
\* process (so that neither adaptation nor _last_frame_t follow)
Branch(r, done) == [s |-> r.s, out |-> r.out, done |-> done]

\* process, the IDLE block once the right-click chord did not fire; arm is
\* the scroll-arming condition, s1 carries the middle timestamp
idle_gestures(s1, arm, hand, t, ring_down, pinching, calm, w) ==
    IF arm /\ (t - s1.mid_down_ms) >= SCROLL_ARM_MS /\ ~(t < s1.click_settle_until)
    THEN Branch(enter_scroll(s1, hand, t), TRUE)
    ELSE IF pinching
    THEN Branch(enter_contact(s1, hand, t), TRUE)
    ELSE IF ring_down /\ calm
    THEN Branch(R([s1 EXCEPT !.hover_prev = NoneT,
                             !.hover_block_until = t + RING_BLOCK_MS],
                  <<ButtonEv(t, "RIGHT", "DOWN"), ButtonEv(t, "RIGHT", "UP")>>),
                TRUE)
    ELSE IF t >= s1.hover_block_until
    THEN Branch(maybe_emit_hover_move(s1, hand, w.wall, w.quarters), FALSE)
    ELSE Branch(R([s1 EXCEPT !.hover_prev = NoneT], <<>>), FALSE)

\* the IDLE block without the block that follows a right-click chord
process_idle_unblocked(s, hand, t, index_down, middle_down, ring_down, pinching, calm, w) ==
    IF /\ index_down /\ middle_down /\ calm
       /\ s.idx_down_ms # NoneT /\ s.mid_down_ms # NoneT
       /\ Abs(s.idx_down_ms - s.mid_down_ms) <= CHORD_WINDOW_MS
    THEN Branch(R([s EXCEPT !.hover_prev = NoneT,
                            !.rc_block_until = t + RC_BLOCK_CHORD_MS],
                  <<ButtonEv(t, "RIGHT", "CLICK")>>),
                TRUE)
    ELSE idle_gestures(IF middle_down /\ ~s.fast_left_latched
                       THEN [s EXCEPT !.mid_down_ms = IF s.mid_down_ms = NoneT THEN t
                                                      ELSE s.mid_down_ms]
                       ELSE [s EXCEPT !.mid_down_ms = NoneT],
                       middle_down /\ ~s.fast_left_latched,
                       hand, t, ring_down, pinching, calm, w)

\* process, the IDLE block
process_idle(s, hand, t, index_down, middle_down, ring_down, pinching, calm, w) ==
    IF t < s.rc_block_until
    THEN Branch(R([s EXCEPT !.hover_prev = NoneT], <<>>), TRUE)
    ELSE IF /\ index_down /\ middle_down /\ calm
            /\ s.idx_down_ms # NoneT /\ s.mid_down_ms # NoneT
            /\ Abs(s.idx_down_ms - s.mid_down_ms) <= CHORD_WINDOW_MS
    THEN Branch(R([s EXCEPT !.hover_prev = NoneT,
                            !.rc_block_until = t + RC_BLOCK_CHORD_MS],
                  <<ButtonEv(t, "RIGHT", "CLICK")>>),
                TRUE)
    ELSE idle_gestures(IF middle_down /\ ~s.fast_left_latched
                       THEN [s EXCEPT !.mid_down_ms = IF s.mid_down_ms = NoneT THEN t
                                                      ELSE s.mid_down_ms]
                       ELSE [s EXCEPT !.mid_down_ms = NoneT],
                       middle_down /\ ~s.fast_left_latched,
                       hand, t, ring_down, pinching, calm, w)

\* the events of a step placed after those already collected
Then(out, r) == R(r.s, out \o r.out)

\* process, CONTACT while pinching: the drag upgrade after the move
contact_hold(r1, t) ==
    Then(r1.out,
         IF r1.s.contact_start_ms # NoneT
            /\ (t - r1.s.contact_start_ms) >= DRAG_HOLD_MS
         THEN enter_drag(r1.s, t) ELSE R(r1.s, <<>>))

\* process, SCROLL once the hold deadline was refreshed
scroll_hold(s1, hand, t, w) ==
    IF t <= s1.scroll_hold_until
    THEN maybe_emit_scroll(s1, hand, t, w.wall)
    ELSE R([s1 EXCEPT !.scroll_anchor_y = NoneT, !.scroll_remainder = 0,
                      !.hover_prev = NoneT,
                      !.hover_block_until = t + SCROLL_EXIT_BLOCK_MS,
                      !.mode = "IDLE"],
           <<ModeEv(t, "IDLE")>>)

\* the second if-chain with a CONTACT branch that ignores the settle window
process_mode_unsettled(s, hand, t, middle_down, pinching, calm, w) ==
    IF s.mode = "IDLE" /\ calm /\ hand.confidence >= Max(s.conf_recog, ADAPT_CONF)
    THEN R(maybe_adapt(s, hand, t), <<>>)
    ELSE IF s.mode = "CONTACT"
    THEN IF pinching
         THEN contact_hold(emit_move(s, hand, t), t)
         ELSE exit_contact(s, hand, t, calm)
    ELSE IF s.mode = "DRAG"
    THEN IF pinching THEN emit_move(s, hand, t) ELSE exit_drag(s, t)
    ELSE IF s.mode = "SCROLL"
    THEN scroll_hold(IF middle_down
                     THEN [s EXCEPT !.scroll_hold_until = t + SCROLL_HOLD_MS] ELSE s,
                     hand, t, w)
    ELSE IF s.mode = "DRAG_SCROLL"
    THEN IF middle_down THEN maybe_emit_scroll(s, hand, t, w.wall)
         ELSE R([s EXCEPT !.scroll_anchor_y = NoneT, !.hover_prev = NoneT,
                          !.mode = "DRAG"],
                <<ModeEv(t, "DRAG")>>)
    ELSE IF s.mode \in {"LOST", "OFF"}
    THEN R([s EXCEPT !.mode = "IDLE"], <<ModeEv(t, "IDLE")>>)
    ELSE R(s, <<>>)

\* process, the branches of the second if-chain (adaptation in IDLE, then
\* CONTACT, DRAG, SCROLL, DRAG_SCROLL, LOST/OFF)
process_mode(s, hand, t, middle_down, pinching, calm, w) ==
    IF s.mode = "IDLE" /\ calm /\ hand.confidence >= Max(s.conf_recog, ADAPT_CONF)
    THEN R(maybe_adapt(s, hand, t), <<>>)
    ELSE IF s.mode = "CONTACT"
    THEN IF pinching
         THEN contact_hold(IF t >= s.click_settle_until THEN emit_move(s, hand, t)
                           ELSE R(s, <<>>),
                           t)
         ELSE exit_contact(s, hand, t, calm)
    ELSE IF s.mode = "DRAG"
    THEN IF pinching THEN emit_move(s, hand, t) ELSE exit_drag(s, t)
    ELSE IF s.mode = "SCROLL"
    THEN scroll_hold(IF middle_down
                     THEN [s EXCEPT !.scroll_hold_until = t + SCROLL_HOLD_MS] ELSE s,
                     hand, t, w)
    ELSE IF s.mode = "DRAG_SCROLL"
    THEN IF middle_down THEN maybe_emit_scroll(s, hand, t, w.wall)
         ELSE R([s EXCEPT !.scroll_anchor_y = NoneT, !.hover_prev = NoneT,
                          !.mode = "DRAG"],
                <<ModeEv(t, "DRAG")>>)
    ELSE IF s.mode \in {"LOST", "OFF"}
    THEN R([s EXCEPT !.mode = "IDLE"], <<ModeEv(t, "IDLE")>>)
    ELSE R(s, <<>>)

\* process, its end: _last_frame_t recorded, the events returned
process_end(out, m, t) == P([m.s EXCEPT !.last_frame_t = t], out \o m.out, FALSE)

\* process, the second if-chain unless the IDLE block returned
process_chain(i, hand, t, middle_down, pinching, calm, w) ==
    IF i.done THEN P(i.s, i.out, FALSE)
    ELSE process_end(i.out,
                     process_mode(i.s, hand, t, middle_down, pinching, calm, w), t)

\* process, the IDLE block and what follows, c being the result of _is_calm
process_calm(c, hand, t, pinching, w) ==
    process_chain(IF c.s.mode = "IDLE"
                  THEN process_idle(c.s, hand, t, c.s.index.state, c.s.middle.state,
                                    c.s.ring.state, pinching, c.calm, w)
                  ELSE Branch(R(c.s, <<>>), FALSE),
                  hand, t, c.s.middle.state, pinching, c.calm, w)

\* process, from _is_calm on, u being the result of the unlatch rule
process_unlatched(u, hand, t, w) ==
    process_calm(is_calm(u.s, hand, t), hand, t, u.pinching, w)

\* process, from the latch rules to the end, for a frame that is valid
\* and did not arm
process_valid(s, hand, t, w) == process_unlatched(unlatch(s, hand.index, t), hand, t, w)

\* process, the arming that enters CONTACT and blocks the chord
latch_contact(r, t) == P([r.s EXCEPT !.rc_block_until = t + RC_BLOCK_ARM_MS], r.out, FALSE)

\* process, the click arming on the tracked peak s1: the test
\* "self._pi_peak >= FAST_DOWN" reads the module global FAST_DOWN, which no
\* statement of the package binds; g is its binding (NoneT: unbound, the
\* read raises NameError and the call ends there, keeping what it had
\* assigned so far)
arm(s1, g, hand, t, w) ==
    LET arming == ~s1.fast_left_latched /\ ~s1.middle.state /\ s1.mode # "SCROLL"
    IN  IF arming /\ g = NoneT THEN P(s1, <<>>, TRUE)
        ELSE IF arming /\ s1.pi_peak >= g
        THEN latch_contact(enter_contact([s1 EXCEPT !.fast_left_latched = TRUE,
                                                    !.fast_latch_start_ms = t,
                                                    !.pi_peak = 0, !.pi_peak_t = NoneT],
                                         hand, t),
                           t)
        ELSE process_valid(s1, hand, t, w)

\* process, the peak tracking and the click arming
process_arm(s, g, hand, t, w) == arm(track_peak(s, hand.index, t), g, hand, t, w)

\* a call that returned r
Returned(r) == P(r.s, r.out, FALSE)

\* the lost-timeout check without its "is not None" test, the time without
\* a valid frame counted from 0
process_invalid_eager(s2, t) ==
    process_end(<<>>,
                IF (t - Max(s2.last_good_t, 0)) >= LOST_TIMEOUT_MS
                THEN enter_lost(s2, t) ELSE R(s2, <<>>),
                t)

\* process, an invalid frame: tracking lost after lost_timeout_ms
process_invalid(s2, t) ==
    process_end(<<>>,
                IF s2.last_good_t # NoneT /\ (t - s2.last_good_t) >= LOST_TIMEOUT_MS
                THEN enter_lost(s2, t) ELSE R(s2, <<>>),
                t)

\* process, the validity test on the updated gates
process_gated(s1, g, hand, t, w) ==
    IF is_valid(hand) \/ (hand.hand_id # 0 /\ s1.middle.state)
    THEN process_arm([s1 EXCEPT !.last_good_t = t], g, hand, t, w)
    ELSE process_invalid(hover_reset(s1), t)

\* process, the selected hand
process_hand(s, g, hand, t, w) == process_gated(update_gates(s, hand, t), g, hand, t, w)

\* process, the frame of an enabled interpreter (all that follows the
\* "if self.off" block)
process_on(s, g, frame, w) == process_hand(s, g, select_hand(frame.hands), frame.t_ms, w)

\* process without its "if self.off" block
process_ignoring_off(s, g, frame, w) == process_on(s, g, frame, w)

\* Interpreter.process(frame); w carries the readings of the wall clock
process(s, g, frame, w) ==
    IF s.off
    THEN IF s.mode # "OFF"
         THEN Returned(enter_off(s, frame.t_ms))
         ELSE P(s, <<>>, FALSE)
    ELSE process_on(s, g, frame, w)

\* ----------------------------------------------------------- the system
VARIABLES
    it,            \* the Interpreter object
    FAST_DOWN,     \* binding of the module global FAST_DOWN (NoneT: unbound)
    clock,         \* t_ms of the latest call (callers pass non-decreasing t_ms)
    ret,           \* events returned by the latest call
    raised,        \* the latest call ended in an exception
    call,          \* the latest call: its arguments and the object before it
    left_balance,  \* LEFT DOWN events emitted so far minus LEFT UP events
    alt_ok,        \* the LEFT DOWN / UP events so far alternate, DOWN first
    last_down_t,   \* t_ms of the latest LEFT DOWN emitted (NoneT: none yet)
    session,       \* what the caller has seen so far (see NoSession)
    scn            \* progress of a scripted pinch (phase "free": no script)

vars == <<it, FAST_DOWN, clock, ret, raised, call, left_balance, alt_ok,
          last_down_t, session, scn>>

\* running count of LEFT DOWN minus LEFT UP over a list of events, and
\* whether the count stayed within {0, 1} after each of them
RECURSIVE Balance(_, _, _)
Balance(events, b, ok) ==
    IF events = <<>> THEN [b |-> b, ok |-> ok]
    ELSE LET e == Head(events)
             b1 == IF IsLeftDown(e) THEN b + 1
                   ELSE IF IsLeftUp(e) THEN b - 1 ELSE b
         IN  Balance(Tail(events), b1, ok /\ b1 \in {0, 1})

RECURSIVE LastDown(_, _)
LastDown(events, d) ==
    IF events = <<>> THEN d
    ELSE LastDown(Tail(events),
                  IF IsLeftDown(Head(events)) THEN Head(events).t ELSE d)

CallTag(op, off) ==
    IF op = "none" THEN "none"
    ELSE IF op = "process" THEN "process"
    ELSE IF off THEN "set_off_true" ELSE "set_off_false"

NoCall ==
    [op |-> "none", off |-> FALSE, prev |-> "none", valid |-> FALSE, pi |-> 0,
     middle_down |-> FALSE, pre_mode |-> "IDLE", pre_off |-> FALSE,
     pre_left |-> FALSE, pre_latched |-> FALSE, pre_latch_t |-> NoneT,
     scroll_y |-> NoneT, pre_rem |-> 0, pre_lost |-> FALSE, pre_ev_t |-> NoneT]

\* the session before its first call: first_t is the t_ms of the first
\* frame processed, last_ev_t the t_ms of the latest event returned, lost
\* tells that MODE LOST was returned and no valid frame came since
NoSession == [first_t |-> NoneT, last_ev_t |-> NoneT, lost |-> FALSE]

\* the session after a call that returned out
Seen(out, op, valid, t) ==
    [first_t |-> IF session.first_t = NoneT /\ op = "process" THEN t
                 ELSE session.first_t,
     last_ev_t |-> IF out = <<>> THEN session.last_ev_t ELSE out[Len(out)].t,
     lost |-> IF op = "process" /\ valid THEN FALSE
              ELSE session.lost \/ (\E i \in 1..Len(out) : IsLost(out[i]))]

\* bookkeeping of a call that took the object from "it" to r.s
Record(r, op, off, hand, t) ==
    LET bal == Balance(r.out, left_balance, alt_ok)
    IN  /\ it' = r.s
        /\ ret' = r.out
        /\ raised' = r.raised
        /\ clock' = t
        /\ call' = [op |-> op, off |-> off, prev |-> CallTag(call.op, call.off),
                    valid |-> is_valid(hand), pi |-> hand.index,
                    middle_down |-> hand.hand_id # 0 /\ r.s.middle.state,
                    pre_mode |-> it.mode, pre_off |-> it.off,
                    pre_left |-> it.left_down, pre_latched |-> it.fast_left_latched,
                    pre_latch_t |-> IF it.fast_left_latched THEN it.fast_latch_start_ms
                                    ELSE NoneT,
                    scroll_y |-> IF it.mode = "SCROLL" /\ hand.hand_id # 0
                                 THEN hand.y ELSE NoneT,
                    pre_rem |-> it.scroll_remainder,
                    pre_lost |-> session.lost, pre_ev_t |-> session.last_ev_t]
        /\ left_balance' = bal.b
        /\ alt_ok' = bal.ok
        /\ last_down_t' = LastDown(r.out, last_down_t)
        /\ session' = Seen(r.out, op,
                           is_valid(hand) \/ (hand.hand_id # 0 /\ r.s.middle.state), t)
        /\ UNCHANGED FAST_DOWN

InitCalls ==
    /\ clock = 0
    /\ ret = <<>>
    /\ raised = FALSE
    /\ call = NoCall
    /\ left_balance = 0
    /\ alt_ok = TRUE
    /\ last_down_t = NoneT
    /\ session = NoSession

InitShared ==
    /\ it = NewInterpreter
    /\ InitCalls

NoScenario ==
    [phase |-> "free", t_hold |-> NoneT, t_rel |-> NoneT, still |-> TRUE,
     downs |-> 0, ups |-> 0, clicks |-> 0]

\* the package as shipped: nothing binds FAST_DOWN
Init ==
    /\ InitShared
    /\ FAST_DOWN = NoneT
    /\ scn = NoScenario

\* a host that may have bound the global to the constructor's arming threshold
InitArmed ==
    /\ InitShared
    /\ FAST_DOWN \in {NoneT, FAST_DOWN_DEFAULT}
    /\ scn = NoScenario

\* a caller passes a frame to process
Process ==
    \E dt \in DtSet, hands \in HandLists, skew \in WallSkews, q \in HoverAlphas :
        /\ clock + dt <= MaxT
        /\ Record(process(it, FAST_DOWN, [t_ms |-> clock + dt, hands |-> hands],
                          [wall |-> clock + dt + skew, quarters |-> q]),
                  "process", FALSE, select_hand(hands), clock + dt)
        /\ UNCHANGED scn

\* a caller switches the interpreter off or back on
SetOff ==
    \E dt \in DtSet, off \in BOOLEAN :
        /\ clock + dt <= MaxT
        /\ Record(Returned(set_off(it, off, clock + dt)),
                  "set_off", off, NoHand, clock + dt)
        /\ UNCHANGED scn

Next == Process \/ SetOff

Spec == Init /\ [][Next]_vars

SpecArmed == InitArmed /\ [][Next]_vars

\* -------------------------------------------------- the scripted pinch
\* The replay of interpreter/tests/test_replay.py: one frame with an open
\* hand at t_ms = 0, then frames with the index pinch at full strength,
\* then frames with the hand open again; confidence 0.9, middle pinch 0.
MaxPinchT == 400
PinchDts == {20, 40}
PinchPos == {500, 504}

Count(events, Test(_)) == Cardinality({i \in 1..Len(events) : Test(events[i])})

InitPinch ==
    /\ InitShared
    /\ FAST_DOWN = NoneT
    /\ scn = [NoScenario EXCEPT !.phase = "start"]

PinchCall(hand, t) ==
    process(it, FAST_DOWN, [t_ms |-> t, hands |-> <<hand>>],
            [wall |-> t, quarters |-> 1])

\* the opening frame: open hand at t_ms = 0
OpenFrame ==
    /\ scn.phase = "start"
    /\ Record(PinchCall(Obs(90, 500, <<0, 0, 0>>), 0),
              "process", FALSE, Obs(90, 500, <<0, 0, 0>>), 0)
    /\ scn' = [scn EXCEPT !.phase = "hold"]

\* a frame of the held pinch
HoldFrame ==
    \E dt \in PinchDts, y \in PinchPos :
        /\ scn.phase = "hold"
        /\ clock + dt <= MaxPinchT
        /\ Record(PinchCall(Obs(90, y, <<100, 0, 0>>), clock + dt),
                  "process", FALSE, Obs(90, y, <<100, 0, 0>>), clock + dt)
        /\ scn' = [scn EXCEPT
                      !.t_hold = IF scn.t_hold = NoneT THEN clock' ELSE scn.t_hold,
                      !.still = scn.still /\ y = 500,
                      !.downs = scn.downs + Count(ret', IsLeftDown)]

\* a frame after the release of the pinch
ReleaseFrame ==
    \E dt \in PinchDts :
        /\ \/ scn.phase = "hold" /\ scn.t_hold # NoneT
           \/ scn.phase = "release"
        /\ clock + dt <= MaxPinchT
        /\ Record(PinchCall(Obs(90, 500, <<0, 0, 0>>), clock + dt),
                  "process", FALSE, Obs(90, 500, <<0, 0, 0>>), clock + dt)
        /\ scn' = [scn EXCEPT
                      !.phase = "release",
                      !.t_rel = IF scn.t_rel = NoneT THEN clock' ELSE scn.t_rel,
                      !.downs = scn.downs + Count(ret', IsLeftDown),
                      !.ups = scn.ups + Count(ret', IsLeftUp),
                      !.clicks = scn.clicks + Count(ret', IsLeftClick)]

NextPinch == OpenFrame \/ HoldFrame \/ ReleaseFrame

SpecPinch == InitPinch /\ [][NextPinch]_vars

\* ------------------------------------------- the replayed hold and scroll
\* The replays of test_drag_hold_and_release and
\* test_scroll_emits_scroll_events: an open hand at t_ms = 0, the index
\* pinch held at full strength, and then either the release, or the middle
\* pinch added at full strength followed by the three frames that move the
\* hand down (y = 0.54, 0.58, 0.62).  The global FAST_DOWN is unbound, or
\* bound to the constructor's threshold.
MaxReplayT == 400
ReplayDts == {20, 40}
\* the index pinch is held this long before the middle pinch joins
CONTACT_LEAD_MS == 100
\* the middle pinch is held this long before the hand moves
MIDDLE_LEAD_MS == 120

NoReplay ==
    [phase |-> "start", t_hold |-> NoneT, t_both |-> NoneT, moved |-> 0,
     scrolls |-> 0]

InitReplay ==
    /\ InitShared
    /\ FAST_DOWN \in {NoneT, FAST_DOWN_DEFAULT}
    /\ scn = NoReplay

\* frame(t, 0.0, 0.0) at t = 0
ReplayOpen ==
    /\ scn.phase = "start"
    /\ Record(PinchCall(Obs(90, 500, <<0, 0, 0>>), 0),
              "process", FALSE, Obs(90, 500, <<0, 0, 0>>), 0)
    /\ scn' = [scn EXCEPT !.phase = "hold"]

\* frame(t, 1.0, 0.0)
ReplayHold ==
    \E dt \in ReplayDts :
        /\ scn.phase = "hold"
        /\ clock + dt <= MaxReplayT
        /\ Record(PinchCall(Obs(90, 500, <<100, 0, 0>>), clock + dt),
                  "process", FALSE, Obs(90, 500, <<100, 0, 0>>), clock + dt)
        /\ scn' = [scn EXCEPT !.t_hold = IF scn.t_hold = NoneT THEN clock'
                                         ELSE scn.t_hold]

\* frame(t, 1.0, 1.0, pos=(0.5, 0.5, 0.0))
ReplayBoth ==
    \E dt \in ReplayDts :
        /\ \/ scn.phase = "hold" /\ scn.t_hold # NoneT
                /\ clock - scn.t_hold >= CONTACT_LEAD_MS
           \/ scn.phase = "both"
        /\ clock + dt <= MaxReplayT
        /\ Record(PinchCall(Obs(90, 500, <<100, 100, 0>>), clock + dt),
                  "process", FALSE, Obs(90, 500, <<100, 100, 0>>), clock + dt)
        /\ scn' = [scn EXCEPT !.phase = "both",
                              !.t_both = IF scn.t_both = NoneT THEN clock'
                                         ELSE scn.t_both]

\* frame(t, 1.0, 1.0, pos=(0.5, y, 0.0)) for y in (0.54, 0.58, 0.62)
ReplayMove ==
    \E dt \in ReplayDts :
        /\ \/ scn.phase = "both" /\ clock + dt - scn.t_both >= MIDDLE_LEAD_MS
           \/ scn.phase = "move" /\ scn.moved < 3
        /\ clock + dt <= MaxReplayT
        /\ Record(PinchCall(Obs(90, 540 + 40 * scn.moved, <<100, 100, 0>>), clock + dt),
                  "process", FALSE,
                  Obs(90, 540 + 40 * scn.moved, <<100, 100, 0>>), clock + dt)
        /\ scn' = [scn EXCEPT !.phase = "move",
                              !.moved = scn.moved + 1,
                              !.scrolls = scn.scrolls + Count(ret', IsScroll)]

\* frame(t, 0.0, 0.0) after the hold
ReplayRelease ==
    \E dt \in ReplayDts :
        /\ \/ scn.phase = "hold" /\ scn.t_hold # NoneT
           \/ scn.phase = "release"
        /\ clock + dt <= MaxReplayT
        /\ Record(PinchCall(Obs(90, 500, <<0, 0, 0>>), clock + dt),
                  "process", FALSE, Obs(90, 500, <<0, 0, 0>>), clock + dt)
        /\ scn' = [scn EXCEPT !.phase = "release"]

NextReplay == ReplayOpen \/ ReplayHold \/ ReplayBoth \/ ReplayMove \/ ReplayRelease

SpecReplay == InitReplay /\ [][NextReplay]_vars

\* --------------------------------------------------------- scroll sessions
\* Sessions of a hand that pinches the middle finger and moves vertically.
\* The hand first holds the middle pinch at y = 0.5, seen well or below
\* MIN_CONF, until the mode is SCROLL; from then on the observations are an
\* open hand, a middle-pinching hand at four heights (0.24 and 0.76 lie more
\* than the clutch distance above and below 0.5), a middle-pinching hand seen below
\* MIN_CONF, or no hand.  The profile loaded by the constructor may have set
\* scroll_physics.invert_y.  The global FAST_DOWN is unbound, as shipped.
MaxScrollT == 480
ScrollDts == {40}
ScrollHeights == {240, 500, 540, 760}
ScrollHands ==
    {Obs(90, y, <<0, 100, 0>>) : y \in ScrollHeights}
        \cup {Obs(90, 500, <<0, 0, 0>>), Obs(30, 500, <<0, 100, 0>>)}

\* skew is how far the wall clock that stamps SCROLL events is ahead of the
\* frames' t_ms, the same for the whole session
NoScroll == {[phase |-> "engage", skew |-> k] : k \in WallSkews}

InitScroll ==
    /\ it \in {[NewInterpreter EXCEPT !.invert_y = b] : b \in BOOLEAN}
    /\ InitCalls
    /\ FAST_DOWN = NoneT
    /\ scn \in NoScroll

\* a frame of the steady middle pinch that engages scrolling
ScrollEngage ==
    \E dt \in ScrollDts, c \in {90, 30} :
        /\ scn.phase = "engage"
        /\ clock + dt <= MaxScrollT
        /\ Record(process(it, FAST_DOWN,
                          [t_ms |-> clock + dt, hands |-> <<Obs(c, 500, <<0, 100, 0>>)>>],
                          [wall |-> clock + dt + scn.skew, quarters |-> 1]),
                  "process", FALSE, Obs(c, 500, <<0, 100, 0>>), clock + dt)
        /\ scn' = [scn EXCEPT !.phase = IF it'.mode = "SCROLL" THEN "scroll"
                                        ELSE "engage"]

\* a frame with one hand
ScrollFrame ==
    \E dt \in ScrollDts, hand \in ScrollHands :
        /\ scn.phase = "scroll"
        /\ clock + dt <= MaxScrollT
        /\ Record(process(it, FAST_DOWN, [t_ms |-> clock + dt, hands |-> <<hand>>],
                          [wall |-> clock + dt + scn.skew, quarters |-> 1]),
                  "process", FALSE, hand, clock + dt)
        /\ UNCHANGED scn

\* a frame without hands
ScrollGap ==
    \E dt \in ScrollDts :
        /\ scn.phase = "scroll"
        /\ clock + dt <= MaxScrollT
        /\ Record(process(it, FAST_DOWN, [t_ms |-> clock + dt, hands |-> <<>>],
                          [wall |-> clock + dt + scn.skew, quarters |-> 1]),
                  "process", FALSE, NoHand, clock + dt)
        /\ UNCHANGED scn

NextScroll == ScrollEngage \/ ScrollFrame \/ ScrollGap

SpecScroll == InitScroll /\ [][NextScroll]_vars

\* ------------------------------------------------------- twin interpreters
\* Two interpreters built alike (Interpreter(DEFAULT_PRESET), FAST_DOWN
\* unbound) receive the same calls; the calls of the twin are made while the
\* wall clock reads scn.skew ms more.  The hand holds the middle pinch below
\* MIN_CONF until the first interpreter scrolls, then moves between two
\* heights or disappears, and the caller may switch both off and on.
MaxTwinT == 440
TwinDts == {40}
TwinHands == {Obs(90, 500, <<0, 100, 0>>), Obs(90, 540, <<0, 100, 0>>)}

TwinStart ==
    {[phase |-> "engage", skew |-> k, twin |-> NewInterpreter, twin_ret |-> <<>>] :
         k \in WallSkews}

InitTwin ==
    /\ InitShared
    /\ FAST_DOWN = NoneT
    /\ scn \in TwinStart

\* the twin after the call that returned r
TwinAfter(r, phase) ==
    [scn EXCEPT !.phase = phase, !.twin = r.s, !.twin_ret = r.out]

\* both interpreters process the same frame
TwinProcess(hands, hand, t, phase) ==
    /\ t <= MaxTwinT
    /\ Record(process(it, FAST_DOWN, [t_ms |-> t, hands |-> hands],
                      [wall |-> t, quarters |-> 1]),
              "process", FALSE, hand, t)
    /\ scn' = TwinAfter(process(scn.twin, FAST_DOWN, [t_ms |-> t, hands |-> hands],
                                [wall |-> t + scn.skew, quarters |-> 1]),
                        IF phase = "engage" /\ it'.mode = "SCROLL" THEN "scroll" ELSE phase)

\* a frame of the steady middle pinch that engages scrolling
TwinEngage ==
    \E dt \in TwinDts :
        /\ scn.phase = "engage"
        /\ TwinProcess(<<Obs(30, 500, <<0, 100, 0>>)>>, Obs(30, 500, <<0, 100, 0>>),
                       clock + dt, "engage")

\* a frame with the hand at one of the heights
TwinFrame ==
    \E dt \in TwinDts, hand \in TwinHands :
        /\ scn.phase = "scroll"
        /\ TwinProcess(<<hand>>, hand, clock + dt, "scroll")

\* a frame without hands
TwinGap ==
    \E dt \in TwinDts :
        /\ scn.phase = "scroll"
        /\ TwinProcess(<<>>, NoHand, clock + dt, "scroll")

\* both interpreters are switched off or on
TwinSetOff ==
    \E dt \in TwinDts, off \in BOOLEAN :
        /\ scn.phase = "scroll"
        /\ clock + dt <= MaxTwinT
        /\ Record(Returned(set_off(it, off, clock + dt)),
                  "set_off", off, NoHand, clock + dt)
        /\ scn' = TwinAfter(set_off(scn.twin, off, clock + dt), "scroll")

NextTwin == TwinEngage \/ TwinFrame \/ TwinGap \/ TwinSetOff

SpecTwin == InitTwin /\ [][NextTwin]_vars

\* ------------------------------------------------------ resting sessions
\* Long sessions of a hand that rests at one place, open or with the index
\* finger half closed (below the arming threshold), seen well or just above
\* MIN_CONF.  The frames shown are a minute apart, so that the adaptation of
\* the index thresholds runs, except for a few that follow after 3 s, less
\* than the adaptation period.  scn keeps the thresholds and the adaptation
\* timestamp the call started from.
MaxAdaptT == 190000
MaxShorts == 2
SHORT_GAP_MS == 3000
LONG_GAP_MS == 60000
AdaptHands ==
    {Obs(90, 500, <<0, 0, 0>>), Obs(90, 500, <<65, 0, 0>>), Obs(58, 500, <<0, 0, 0>>),
     Obs(90, 510, <<0, 0, 0>>), Obs(90, 540, <<0, 0, 0>>)}

\* beside these, the confidence of the hand shown and how far it is from
\* where the previous frame showed it (0.51 is within the calm speed of
\* 0.50, 0.54 is not)
AdaptBefore(n, hand) ==
    [pre_on |-> it.index.p_on, pre_off |-> it.index.p_off,
     pre_adapt |-> it.last_adapt_ms, shorts |-> n,
     conf |-> hand.confidence, y |-> hand.y,
     dy |-> IF scn.y = NoneT THEN 0 ELSE Abs(hand.y - scn.y)]

InitAdapt ==
    /\ InitShared
    /\ FAST_DOWN \in {NoneT, FAST_DOWN_DEFAULT}
    /\ scn = [pre_on |-> it.index.p_on, pre_off |-> it.index.p_off,
              pre_adapt |-> NoneT, shorts |-> 0, conf |-> 0, y |-> NoneT, dy |-> 0]

\* the resting hand shown at t
AdaptProcess(hand, t, n) ==
    /\ t <= MaxAdaptT
    /\ Record(process(it, FAST_DOWN, [t_ms |-> t, hands |-> <<hand>>],
                      [wall |-> t, quarters |-> 1]),
              "process", FALSE, hand, t)
    /\ scn' = AdaptBefore(n, hand)

\* a frame a minute after the previous one
AdaptFrame ==
    \E hand \in AdaptHands : AdaptProcess(hand, clock + LONG_GAP_MS, scn.shorts)

\* a frame 3 s after the previous one
AdaptShort ==
    \E hand \in AdaptHands :
        /\ scn.shorts < MaxShorts
        /\ AdaptProcess(hand, clock + SHORT_GAP_MS, scn.shorts + 1)

NextAdapt == AdaptFrame \/ AdaptShort

SpecAdapt == InitAdapt /\ [][NextAdapt]_vars

\* -------------------------------------------------------- chord sessions
\* Sessions of a hand that closes index and middle finger together: the
\* observations are an open hand and the chord, at rest and displaced
\* (faster than the calm speed).  The global FAST_DOWN is
\* unbound or bound.  scn.click_t is the t_ms of the latest RIGHT CLICK,
\* scn.held tells that every frame since then still showed the chord, and
\* scn.again that the latest RIGHT CLICK came while the chord of the one
\* before was still held; scn.calm and scn.pre_block are the calm test of
\* the frame and the chord block it started from.
MaxChordT == 440
ChordDts == {40, 120}
ChordHands ==
    {Obs(90, 500, <<0, 0, 0>>), Obs(90, 500, <<100, 100, 0>>),
     Obs(90, 540, <<100, 100, 0>>)}

NoChord ==
    [click_t |-> NoneT, held |-> FALSE, again |-> FALSE, calm |-> TRUE,
     pre_block |-> 0]

IsRightClick(e) == IsButton(e, "RIGHT", "CLICK")

InitChord ==
    /\ InitShared
    /\ FAST_DOWN \in {NoneT, FAST_DOWN_DEFAULT}
    /\ scn = NoChord

\* a frame with one hand
ChordFrame ==
    \E dt \in ChordDts, hand \in ChordHands :
        /\ clock + dt <= MaxChordT
        /\ Record(process(it, FAST_DOWN, [t_ms |-> clock + dt, hands |-> <<hand>>],
                          [wall |-> clock + dt, quarters |-> 1]),
                  "process", FALSE, hand, clock + dt)
        /\ scn' = IF Count(ret', IsRightClick) > 0
                  THEN [click_t |-> clock', held |-> TRUE,
                        again |-> scn.held /\ hand.index = 100 /\ hand.middle = 100,
                        calm |-> is_calm(it, hand, clock').calm,
                        pre_block |-> it.rc_block_until]
                  ELSE [scn EXCEPT !.held = scn.held /\ hand.index = 100
                                            /\ hand.middle = 100,
                                   !.calm = is_calm(it, hand, clock').calm,
                                   !.pre_block = it.rc_block_until]

NextChord == ChordFrame

SpecChord == InitChord /\ [][NextChord]_vars

\* -------------------------------------------------------- still sessions
\* Zero-motion sessions: every frame shows the same valid hand at the same
\* place with all pinch strengths 0; the hand (its height and confidence)
\* is chosen at the start, the frame spacing at every frame.
MaxStillT == 800
StillDts == {20, 40, 120}
StillHands == {Obs(c, y, <<0, 0, 0>>) : c \in {58, 90}, y \in {30, 500}}

InitStill ==
    /\ InitShared
    /\ FAST_DOWN \in {NoneT, FAST_DOWN_DEFAULT}
    /\ scn \in {[hand |-> h] : h \in StillHands}

\* one more frame of the unmoved hand
StillFrame ==
    \E dt \in StillDts :
        /\ clock + dt <= MaxStillT
        /\ Record(process(it, FAST_DOWN, [t_ms |-> clock + dt, hands |-> <<scn.hand>>],
                          [wall |-> clock + dt, quarters |-> 1]),
                  "process", FALSE, scn.hand, clock + dt)
        /\ UNCHANGED scn

NextStill == StillFrame

SpecStill == InitStill /\ [][NextStill]_vars

\* ------------------------------------------------- scroll entry sessions
\* Sessions of a well-seen hand that keeps its place and opens, pinches the
\* middle finger, pinches the index finger, or pinches both.  The scenario
\* remembers since when the committed middle gate has been on, the last
\* frame in which it was on, and the settle deadline before the frame.
MaxEntryT == 440
EntryDts == {40}
EntryHands == {Obs(90, 500, p) : p \in {<<0, 0, 0>>, <<0, 100, 0>>,
                                        <<100, 0, 0>>, <<100, 100, 0>>}}
NoEntry == [mid_since |-> NoneT, last_mid_t |-> NoneT, pre_settle |-> 0]

InitEntry ==
    /\ InitShared
    /\ FAST_DOWN \in {NoneT, FAST_DOWN_DEFAULT}
    /\ scn = NoEntry

\* a frame with the hand
EntryFrame ==
    \E dt \in EntryDts, hand \in EntryHands :
        /\ clock + dt <= MaxEntryT
        /\ Record(process(it, FAST_DOWN, [t_ms |-> clock + dt, hands |-> <<hand>>],
                          [wall |-> clock + dt, quarters |-> 1]),
                  "process", FALSE, hand, clock + dt)
        /\ scn' = [mid_since |-> IF ~it'.middle.state THEN NoneT
                                 ELSE IF it.middle.state THEN scn.mid_since
                                 ELSE clock',
                   last_mid_t |-> IF it'.middle.state THEN clock' ELSE scn.last_mid_t,
                   pre_settle |-> it.click_settle_until]

NextEntry == EntryFrame

SpecEntry == InitEntry /\ [][NextEntry]_vars

\* ---------------------------------------------------------- gate sessions
\* A debounced hysteresis gate on its own: the index gate or the middle gate
\* of a new Interpreter, updated with pinch strengths at increasing times.
\* Beside the gate the scenario keeps the latest value, whether that update
\* changed the committed state, the committed state before it, and, counted
\* apart from the gate's own candidate fields, the time of the first update
\* of the unbroken run of far-side values that the latest update belongs to
\* (run_start; NoneT when its value was not on the far side).
MaxGateT == 240
GateDts == {20, 40}
GateValues == {50, 52, 57, 62, 70, 78, 90}
GateFar(g, value) ==
    IF g.state THEN value * 10000 <= g.p_off ELSE value * 10000 >= g.p_on
GateBetween(g, value) == g.p_off < value * 10000 /\ value * 10000 < g.p_on

NoGate(g) ==
    [g |-> g, value |-> 0, changed |-> FALSE, was |-> FALSE,
     run_start |-> NoneT, run_open |-> FALSE]

InitGate ==
    /\ InitShared
    /\ FAST_DOWN = NoneT
    /\ scn \in {NoGate(NewInterpreter.index), NoGate(NewInterpreter.middle)}

\* one update of the gate
GateStep ==
    \E dt \in GateDts, value \in GateValues :
        /\ clock + dt <= MaxGateT
        /\ clock' = clock + dt
        /\ scn' = [g |-> GateUpdate(scn.g, value, clock + dt),
                   value |-> value,
                   changed |-> GateUpdate(scn.g, value, clock + dt).state # scn.g.state,
                   was |-> scn.g.state,
                   run_start |-> IF ~GateFar(scn.g, value) THEN NoneT
                                 ELSE IF scn.run_open THEN scn.run_start
                                 ELSE clock + dt,
                   run_open |-> /\ GateFar(scn.g, value)
                                /\ GateUpdate(scn.g, value, clock + dt).state = scn.g.state]
        /\ UNCHANGED <<it, FAST_DOWN, ret, raised, call, left_balance, alt_ok,
                       last_down_t, session>>

NextGate == GateStep

SpecGate == InitGate /\ [][NextGate]_vars

\* -------------------------------------------------------- settle sessions
\* Sessions at 20 ms per frame of a well-seen hand that is open or pinches
\* the index finger, at one of two heights, while the caller may switch the
\* interpreter off and on between frames.  The scenario remembers whether
\* the hand of the latest frame had moved.
MaxSettleT == 120
SettleDts == {20}
SettleHands == {Obs(90, y, <<pi, 0, 0>>) : y \in {500, 540}, pi \in {0, 100}}
NoSettle == [moved |-> FALSE, y |-> NoneT]

InitSettle ==
    /\ InitShared
    /\ FAST_DOWN \in {NoneT, FAST_DOWN_DEFAULT}
    /\ scn = NoSettle

\* a frame with the hand
SettleFrame ==
    \E dt \in SettleDts, hand \in SettleHands :
        /\ clock + dt <= MaxSettleT
        /\ Record(process(it, FAST_DOWN, [t_ms |-> clock + dt, hands |-> <<hand>>],
                          [wall |-> clock + dt, quarters |-> 1]),
                  "process", FALSE, hand, clock + dt)
        /\ scn' = [moved |-> scn.y # NoneT /\ hand.y # scn.y, y |-> hand.y]

\* the caller switches the interpreter off or back on, between two frames
SettleSetOff ==
    \E off \in BOOLEAN :
        /\ off # it.off
        /\ Record(Returned(set_off(it, off, clock)), "set_off", off, NoHand, clock)
        /\ UNCHANGED scn

NextSettle == SettleFrame \/ SettleSetOff

SpecSettle == InitSettle /\ [][NextSettle]_vars

\* ---------------------------------------------------------- step sessions
\* Sessions of a well-seen hand that is open or pinches the index finger and
\* jumps between three heights: 0.50 and 0.54 are 43 px apart on the screen,
\* 0.24 lies 281 px above, more than the step cap even before the
\* sensitivity is applied.
MaxStepT == 240
StepDts == {40}
StepHands == {Obs(90, y, <<pi, 0, 0>>) : y \in {240, 500, 540}, pi \in {0, 100}}
NoStep == [jump |-> 0, y |-> NoneT]

InitStep ==
    /\ InitShared
    /\ FAST_DOWN \in {NoneT, FAST_DOWN_DEFAULT}
    /\ scn = NoStep

\* a frame with the hand; the scenario keeps how far it jumped
StepFrame ==
    \E dt \in StepDts, hand \in StepHands :
        /\ clock + dt <= MaxStepT
        /\ Record(process(it, FAST_DOWN, [t_ms |-> clock + dt, hands |-> <<hand>>],
                          [wall |-> clock + dt, quarters |-> 1]),
                  "process", FALSE, hand, clock + dt)
        /\ scn' = [jump |-> IF scn.y = NoneT THEN 0 ELSE Abs(hand.y - scn.y),
                   y |-> hand.y]

NextStep == StepFrame

SpecStep == InitStep /\ [][NextStep]_vars

\* ------------------------------------------------- control and kill switch
\* The control daemon (its ControlState, driven by the tray menu and the
\* hotkey listener, and the enable flag it writes to disk) and the runtime
\* loop (its own ControlState synced from that flag, the KillSwitch in front
\* of the virtual mouse, the Interpreter).  scn holds:
\*   d_enabled              the daemon's ControlState._enabled
\*   file                   content of the flag file ("1" is TRUE)
\*   hk                     the flag value the hotkey listener is about to
\*                          write ("idle": it is between key presses)
\*   r_enabled              the runtime's ControlState._enabled
\*   last_enabled, left_is_down   KillSwitch._last_enabled, ._left_is_down
\*   calls                  the virtual mouse calls of the latest step
\*   ev                     the event the latest apply was given
MouseCall(fn, a, b) == [fn |-> fn, a |-> a, b |-> b]
NoEvent == [t |-> 0, type |-> "NONE"]

\* events of the kinds the sink is handed
SinkEvents ==
    {MoveEv(0, 0, 43), ScrollEv(0, 0, 1), ModeEv(0, "IDLE"),
     ButtonEv(0, "LEFT", "DOWN"), ButtonEv(0, "LEFT", "UP"),
     ButtonEv(0, "RIGHT", "DOWN"), ButtonEv(0, "RIGHT", "UP"),
     ButtonEv(0, "RIGHT", "CLICK")}

\* KillSwitch._release_all
release_all(k) ==
    [k EXCEPT !.left_is_down = FALSE,
              !.calls = <<MouseCall("button_left", 0, 0), MouseCall("button_right", 0, 0)>>]

\* KillSwitch.apply, a LEFT button event
apply_left(k, ev) ==
    IF ev.action = "DOWN"
    THEN IF ~k.left_is_down
         THEN [k EXCEPT !.left_is_down = TRUE,
                        !.calls = <<MouseCall("button_left", 1, 0)>>]
         ELSE k
    ELSE IF ev.action = "UP"
    THEN IF k.left_is_down
         THEN [k EXCEPT !.left_is_down = FALSE,
                        !.calls = <<MouseCall("button_left", 0, 0)>>]
         ELSE k
    ELSE k

\* KillSwitch.apply, a RIGHT button event
apply_right(k, ev) ==
    IF ev.action = "DOWN" THEN [k EXCEPT !.calls = <<MouseCall("button_right", 1, 0)>>]
    ELSE IF ev.action = "UP" THEN [k EXCEPT !.calls = <<MouseCall("button_right", 0, 0)>>]
    ELSE k

\* KillSwitch.apply (k.calls is empty when it starts)
apply(k, ev) ==
    IF ~k.r_enabled THEN k
    ELSE IF ev.type = "MOVE" THEN [k EXCEPT !.calls = <<MouseCall("move", ev.dx, ev.dy)>>]
    ELSE IF ev.type = "SCROLL"
    THEN [k EXCEPT !.calls = <<MouseCall("scroll", ev.dx, ev.dy)>>]
    ELSE IF ev.type = "BUTTON"
    THEN IF ev.name = "LEFT" THEN apply_left(k, ev)
         ELSE IF ev.name = "RIGHT" THEN apply_right(k, ev)
         ELSE k
    ELSE k

NoControl ==
    [d_enabled |-> TRUE, file |-> TRUE, hk |-> "idle", r_enabled |-> TRUE,
     last_enabled |-> TRUE, left_is_down |-> FALSE, calls |-> <<>>, ev |-> NoEvent]

\* control_daemon.main and run_webcam.main up to their loops
InitControl ==
    /\ InitShared
    /\ FAST_DOWN = NoneT
    /\ scn = NoControl

\* a step that leaves the Interpreter alone
ControlStep(k) ==
    /\ scn' = k
    /\ UNCHANGED <<it, FAST_DOWN, clock, ret, raised, call, left_balance, alt_ok,
                   last_down_t, session>>

Quiet(k) == [k EXCEPT !.calls = <<>>, !.ev = NoEvent]

\* tray menu: Toggle, Turn ON, Turn OFF
TrayAction ==
    \E v \in {~scn.d_enabled, TRUE, FALSE} :
        ControlStep([Quiet(scn) EXCEPT !.d_enabled = v])

\* hotkeys.on_press, Ctrl+Alt+Space up to state.toggle() and Ctrl+Alt+Esc
\* up to state.set_enabled(False): the flag is written in a later step
HotkeyPress ==
    /\ scn.hk = "idle"
    /\ \E v \in {~scn.d_enabled, FALSE} :
           ControlStep([Quiet(scn) EXCEPT !.d_enabled = v, !.hk = BoolName(v)])

\* hotkeys.on_press, the set_enabled(...) that writes the flag file
HotkeyWrite ==
    /\ scn.hk # "idle"
    /\ ControlStep([Quiet(scn) EXCEPT !.file = (scn.hk = "True"), !.hk = "idle"])

\* run_webcam.main, the head of a loop iteration: sync from the flag, then
\* KillSwitch.guard
RuntimeGuard ==
    IF scn.file = scn.last_enabled
    THEN ControlStep([Quiet(scn) EXCEPT !.r_enabled = scn.file])
    ELSE /\ Record(Returned(set_off(it, ~scn.file, clock)),
                   "set_off", ~scn.file, NoHand, clock)
         /\ scn' = IF scn.file
                   THEN [Quiet(scn) EXCEPT !.r_enabled = TRUE, !.last_enabled = TRUE]
                   ELSE release_all([Quiet(scn) EXCEPT !.r_enabled = FALSE,
                                                       !.last_enabled = FALSE])

\* run_webcam.main, ks.apply(ev) for an event of the frame
SinkApply ==
    \E ev \in SinkEvents :
        /\ scn' = apply([Quiet(scn) EXCEPT !.ev = ev], ev)
        /\ UNCHANGED <<it, FAST_DOWN, clock, ret, raised, call, left_balance, alt_ok,
                       last_down_t, session>>

NextControl == TrayAction \/ HotkeyPress \/ HotkeyWrite \/ RuntimeGuard \/ SinkApply

SpecControl == InitControl /\ [][NextControl]_vars

\* ------------------------------------------------------------- ring taps
\* One hand at rest that opens, pinches the ring finger, or pinches ring and
\* middle together.  The global FAST_DOWN is unbound or bound.  scn.taps
\* counts the RIGHT DOWN events returned since the committed ring gate last
\* turned on, scn.frames the frames of that stretch that returned one.
MaxRingT == 320
RingDts == {40}
RingHands ==
    {Obs(90, 500, <<0, 0, 0>>), Obs(90, 500, <<0, 0, 100>>),
     Obs(90, 500, <<0, 100, 100>>)}

NoRing == [taps |-> 0, frames |-> 0]

IsRightDown(e) == IsButton(e, "RIGHT", "DOWN")

InitRing ==
    /\ InitShared
    /\ FAST_DOWN \in {NoneT, FAST_DOWN_DEFAULT}
    /\ scn = NoRing

\* a frame with one hand
RingFrame ==
    \E dt \in RingDts, hand \in RingHands :
        /\ clock + dt <= MaxRingT
        /\ Record(process(it, FAST_DOWN, [t_ms |-> clock + dt, hands |-> <<hand>>],
                          [wall |-> clock + dt, quarters |-> 1]),
                  "process", FALSE, hand, clock + dt)
        /\ scn' = IF ~it'.ring.state THEN NoRing
                  ELSE [taps |-> (IF it.ring.state THEN scn.taps ELSE 0)
                                     + Count(ret', IsRightDown),
                        frames |-> (IF it.ring.state THEN scn.frames ELSE 0)
                                     + (IF Count(ret', IsRightDown) > 0 THEN 1 ELSE 0)]

NextRing == RingFrame

SpecRing == InitRing /\ [][NextRing]_vars

\* ---------------------------------------------------------- strong pinches
\* One hand at rest showing an open hand, a half or full index pinch, a
\* middle pinch, both, or a full index pinch at low confidence; the caller
\* may switch the interpreter off and on.  The global FAST_DOWN is unbound
\* or bound.  scn.strong_t is the t_ms of the latest frame whose index pinch
\* was at least the arming threshold.
MaxPeakT == 280
PeakDts == {40, 80}
PeakHands ==
    {Obs(90, 500, p) : p \in Postures} \cup {Obs(30, 500, <<100, 0, 0>>)}

NoPeak == [strong_t |-> NoneT]

InitPeak ==
    /\ InitShared
    /\ FAST_DOWN \in {NoneT, FAST_DOWN_DEFAULT}
    /\ scn = NoPeak

\* a frame with one hand
PeakFrame ==
    \E dt \in PeakDts, hand \in PeakHands :
        /\ clock + dt <= MaxPeakT
        /\ Record(process(it, FAST_DOWN, [t_ms |-> clock + dt, hands |-> <<hand>>],
                          [wall |-> clock + dt, quarters |-> 1]),
                  "process", FALSE, hand, clock + dt)
        /\ scn' = IF hand.index >= FAST_DOWN_DEFAULT
                  THEN [strong_t |-> clock + dt] ELSE scn

\* a caller switches the interpreter off or back on
PeakSetOff ==
    \E dt \in PeakDts, off \in BOOLEAN :
        /\ clock + dt <= MaxPeakT
        /\ off # it.off
        /\ Record(Returned(set_off(it, off, clock + dt)),
                  "set_off", off, NoHand, clock + dt)
        /\ UNCHANGED scn

NextPeak == PeakFrame \/ PeakSetOff

SpecPeak == InitPeak /\ [][NextPeak]_vars

\* ------------------------------------------------------------ properties
Some(events, Test(_)) == \E i \in 1..Len(events) : Test(events[i])

\* C1: the LEFT DOWN and LEFT UP events emitted so far alternate, starting
\* with DOWN, and at every call boundary where the mode is neither CONTACT
\* nor DRAG as many LEFT UP as LEFT DOWN have been emitted.
C1_LeftBalanced ==
    /\ alt_ok
    /\ it.mode \notin {"CONTACT", "DRAG"} => left_balance = 0

\* a press that a pinch release ended: back in IDLE, counts level
C1_Witness ==
    /\ call.op = "process"
    /\ call.pre_mode = "CONTACT"
    /\ it.mode = "IDLE"
    /\ Some(ret, IsLeftUp)
    /\ ~Some(ret, IsLost)
    /\ left_balance = 0

\* C2: while the interpreter is off, process returns no MOVE, no BUTTON
\* DOWN and no SCROLL; once the OFF transition events were returned it
\* returns the empty list, whatever the frame contains.
C2_OffIsInert ==
    (call.op = "process" /\ call.pre_off) =>
        /\ ~Some(ret, IsMove) /\ ~Some(ret, IsDown) /\ ~Some(ret, IsScroll)
        /\ call.pre_mode = "OFF" => (ret = <<>> /\ ~raised)

\* a frame with a valid hand at full index pinch, processed while off
C2_Witness ==
    /\ call.op = "process"
    /\ call.pre_off
    /\ call.pre_mode = "OFF"
    /\ call.valid
    /\ call.pi = 100
    /\ FAST_DOWN # NoneT

\* C3: set_off(true) in CONTACT returns exactly LEFT UP then MODE OFF and
\* leaves mode OFF, LEFT released and the latch clear; the set_off(false)
\* that follows resumes in IDLE with no button held.
C3_OffFromContact ==
    /\ (call.op = "set_off" /\ call.off /\ call.pre_mode = "CONTACT") =>
           /\ Len(ret) = 2
           /\ IsLeftUp(ret[1])
           /\ IsMode(ret[2], "OFF")
           /\ it.mode = "OFF"
           /\ ~it.left_down
           /\ ~it.fast_left_latched
    /\ (call.op = "set_off" /\ ~call.off /\ call.pre_mode = "OFF") =>
           /\ it.mode = "IDLE"
           /\ ~it.left_down
           /\ ~it.fast_left_latched

\* the kill switch hit while LEFT was held in CONTACT
C3_Witness ==
    /\ call.op = "set_off"
    /\ call.off
    /\ call.pre_mode = "CONTACT"
    /\ call.pre_left
    /\ call.pre_latched

\* C4: a set_off(true) that directly follows a set_off(true) returns no
\* events.
C4_SecondOffSilent ==
    (call.op = "set_off" /\ call.off /\ call.prev = "set_off_true") => ret = <<>>

\* C5: process and set_off never raise.
C5_NeverRaises == ~raised

\* C6: every LEFT UP emitted is stamped at least MIN_PRESS_MS after the
\* latest LEFT DOWN.
C6_MinPress ==
    \A i \in 1..Len(ret) :
        IsLeftUp(ret[i]) =>
            (last_down_t # NoneT /\ ret[i].t >= last_down_t + MIN_PRESS_MS)

\* C7: a frame earlier than MIN_HOLD_MS after the latch never releases:
\* the latch, the mode CONTACT and the held LEFT all stay, whatever the
\* index pinch; a release by pinch strength comes MIN_HOLD_MS or more
\* after the latch.
C7_MinHold ==
    /\ (call.op = "process" /\ call.pre_latched
            /\ clock < call.pre_latch_t + MIN_HOLD_MS) =>
           /\ it.fast_left_latched
           /\ it.mode = "CONTACT"
           /\ it.left_down
           /\ ~Some(ret, IsLeftUp)
    /\ (call.op = "process" /\ call.pre_latched /\ Some(ret, IsLeftUp)
            /\ ~Some(ret, IsLost)) =>
           clock >= call.pre_latch_t + MIN_HOLD_MS

\* the index pinch dropped to 0 inside the hold window, and nothing moved
C7_Witness ==
    /\ call.op = "process"
    /\ call.pre_latched
    /\ call.valid
    /\ call.pi = 0
    /\ clock < call.pre_latch_t + MIN_HOLD_MS
    /\ it.mode = "CONTACT"

\* C8: an enabled, valid frame outside SCROLL with the middle gate off, the
\* latch clear and the index pinch at FAST_DOWN or above returns MODE
\* CONTACT then LEFT DOWN, both at the frame's t_ms, and leaves the mode
\* CONTACT; the frame that later releases the pinch returns LEFT UP then
\* MODE IDLE.
C8_ArmSameFrame ==
    /\ (call.op = "process" /\ ~call.pre_off /\ call.valid
            /\ call.pre_mode # "SCROLL" /\ ~call.middle_down
            /\ ~call.pre_latched /\ call.pi >= FAST_DOWN_DEFAULT) =>
           /\ ~raised
           /\ ret = <<ModeEv(clock, "CONTACT"), ButtonEv(clock, "LEFT", "DOWN")>>
           /\ it.mode = "CONTACT"
    /\ (call.op = "process" /\ call.pre_latched /\ call.valid
            /\ ~it.fast_left_latched) =>
           /\ Len(ret) = 2
           /\ IsLeftUp(ret[1])
           /\ IsMode(ret[2], "IDLE")

\* C9: a tap (full index pinch held longer than the index gate's on-dwell
\* with a stationary hand, then released for longer than its off-dwell)
\* has made the release frames emit exactly one BUTTON LEFT CLICK.
C9_TapClicksOnce ==
    (/\ scn.phase = "release"
     /\ scn.still
     /\ scn.t_rel - scn.t_hold > it.index.t_on_ms
     /\ clock - scn.t_rel > it.index.t_off_ms) =>
        scn.clicks = 1

\* C10: one uninterrupted index pinch emits exactly one LEFT DOWN, however
\* long it is held, and exactly one LEFT UP once it has been released.
C10_OneDownOneUp ==
    /\ (scn.phase \in {"hold", "release"} /\ scn.t_hold # NoneT) => scn.downs = 1
    /\ scn.phase \in {"hold", "release"} => scn.ups <= 1
    /\ (scn.phase = "release" /\ clock - scn.t_rel >= MIN_HOLD_MS) => scn.ups = 1

\* C11: a frame that finds the contact held (CONTACT, latch set before and
\* after it, hand valid) for DRAG_HOLD_MS or more since CONTACT was entered
\* returns MODE DRAG exactly once and leaves the mode DRAG.
C11_DragAfterHold ==
    (/\ call.op = "process" /\ call.valid
     /\ call.pre_mode = "CONTACT" /\ call.pre_latched
     /\ it.fast_left_latched
     /\ it.contact_start_ms # NoneT
     /\ clock - it.contact_start_ms >= DRAG_HOLD_MS) =>
        /\ it.mode = "DRAG"
        /\ Count(ret, IsDrag) = 1

\* C12: once the three moving frames of the replay (y = 0.54, 0.58, 0.62,
\* index and middle pinch at full strength, after the middle pinch was held
\* for MIDDLE_LEAD_MS) have been processed, at least one of them has
\* returned a SCROLL event.
C12_ReplayScrolls ==
    (scn.phase = "move" /\ scn.moved = 3) => scn.scrolls >= 1

\* C13: a frame processed in SCROLL mode, or one that ends in SCROLL mode,
\* returns no MOVE event, and every SCROLL event returned by any call has
\* dx = 0 and a dy other than 0 between -MAX_TICKS_PER_FRAME and
\* MAX_TICKS_PER_FRAME.
C13_ScrollOnly ==
    /\ (call.op = "process" /\ (call.pre_mode = "SCROLL" \/ it.mode = "SCROLL"))
            => ~Some(ret, IsMove)
    /\ \A i \in 1..Len(ret) :
            IsScroll(ret[i]) =>
                /\ ret[i].dx = 0
                /\ ret[i].dy # 0
                /\ ret[i].dy >= -MAX_TICKS_PER_FRAME
                /\ ret[i].dy <= MAX_TICKS_PER_FRAME

\* a frame in SCROLL mode returns a SCROLL event at the clamp while more
\* ticks stay in the remainder
C13_Witness ==
    /\ call.op = "process" /\ call.pre_mode = "SCROLL"
    /\ \E i \in 1..Len(ret) :
            IsScroll(ret[i]) /\ Abs(ret[i].dy) = MAX_TICKS_PER_FRAME
    /\ Abs(it.scroll_remainder) >= PX_PER_TICK_CPX

\* the hand of the frame, processed in SCROLL mode, lies beyond the deadzone
\* below (down) or above (~down) the anchor the frame leaves
ScrollPull(down) ==
    /\ call.op = "process" /\ call.pre_mode = "SCROLL"
    /\ call.scroll_y # NoneT
    /\ it.scroll_anchor_y # NoneT
    /\ IF down THEN 108 * call.scroll_y - it.scroll_anchor_y > SCROLL_DEADZONE_CPX
       ELSE it.scroll_anchor_y - 108 * call.scroll_y > SCROLL_DEADZONE_CPX

\* C14 as stated: with the hand beyond the deadzone below the anchor the
\* frame's SCROLL events have positive dy when invert_y is false and negative
\* dy when it is true.
C14_DownIsPositive ==
    ScrollPull(TRUE) =>
        \A i \in 1..Len(ret) :
            IsScroll(ret[i]) => IF it.invert_y THEN ret[i].dy < 0 ELSE ret[i].dy > 0

\* C14 amended: a hand beyond the deadzone below the anchor adds a negative
\* amount to the tick remainder when invert_y is false, a hand above it a
\* positive amount, and invert_y swaps the two; the frame's SCROLL events
\* have the sign of that amount whenever the remainder carried into the
\* frame does not have the opposite sign.
C14_ScrollSign ==
    \A down \in BOOLEAN :
        ScrollPull(down) =>
            \A i \in 1..Len(ret) :
                IsScroll(ret[i]) =>
                    IF down # it.invert_y
                    THEN call.pre_rem <= 0 => ret[i].dy < 0
                    ELSE call.pre_rem >= 0 => ret[i].dy > 0

\* the hand below the anchor with invert_y false returns a negative dy
C14_Witness ==
    /\ ScrollPull(TRUE) /\ ~it.invert_y
    /\ call.pre_rem <= 0
    /\ \E i \in 1..Len(ret) : IsScroll(ret[i]) /\ ret[i].dy < 0

\* the frame just processed by the enabled interpreter had no valid hand
\* and came LOST_TIMEOUT_MS or more after the last valid frame
LostFrame ==
    /\ call.op = "process" /\ ~call.pre_off
    /\ ~call.valid /\ ~call.middle_down
    /\ it.last_good_t # NoneT
    /\ clock - it.last_good_t >= LOST_TIMEOUT_MS

\* C15: the first frame without a valid hand that comes LOST_TIMEOUT_MS or
\* more after the last valid frame returns exactly LEFT UP (if LEFT was
\* held), MODE LOST, MODE IDLE, in this order and stamped with the frame's
\* t_ms, so no MOVE and no SCROLL; it leaves the mode IDLE, LEFT released
\* and the fast latch clear.
C15_LostRecovery ==
    (LostFrame /\ ~call.pre_lost) =>
        /\ ret = (IF call.pre_left THEN <<ButtonEv(clock, "LEFT", "UP")>> ELSE <<>>)
                    \o <<ModeEv(clock, "LOST"), ModeEv(clock, "IDLE")>>
        /\ it.mode = "IDLE"
        /\ ~it.left_down
        /\ ~it.fast_left_latched

\* tracking is lost while LEFT is held
C15_Witness ==
    /\ LostFrame /\ ~call.pre_lost
    /\ call.pre_left /\ call.pre_latched
    /\ Len(ret) = 3 /\ IsLeftUp(ret[1]) /\ IsLost(ret[2])

\* C16: once MODE LOST has been returned, a frame of the enabled
\* interpreter that still has no valid hand returns no events.
C16_SilentWhileLost ==
    (/\ call.op = "process" /\ ~call.pre_off
     /\ call.pre_lost
     /\ ~call.valid /\ ~call.middle_down) => ret = <<>>

\* the t_ms since which no valid frame was seen: the last valid frame, or
\* the first frame of a session that has had none
QuietSince == IF it.last_good_t # NoneT THEN it.last_good_t ELSE session.first_t

\* C17 as stated: a call returns MODE LOST if and only if it is a frame of
\* the enabled interpreter without a valid hand (the committed middle gate
\* counting as valid) and LOST_TIMEOUT_MS or more have passed without a
\* valid frame, also when the session has not had any valid frame.
C17_LostIffQuiet ==
    Some(ret, IsLost) <=>
        /\ call.op = "process" /\ ~call.pre_off
        /\ ~call.valid /\ ~call.middle_down
        /\ clock - QuietSince >= LOST_TIMEOUT_MS

\* C17 amended: a call returns MODE LOST if and only if it is a frame of
\* the enabled interpreter without a valid hand (the committed middle gate
\* counting as valid), the interpreter has processed a valid frame before,
\* and LOST_TIMEOUT_MS or more have passed since the last of them.
C17_LostIff ==
    Some(ret, IsLost) <=> LostFrame

\* MODE LOST returned with nothing held, after a session that began
\* without a valid hand
C17_Witness ==
    /\ LostFrame /\ Some(ret, IsLost)
    /\ ~call.pre_left
    /\ session.first_t < it.last_good_t

\* the MODE events of the call, in order
RECURSIVE ModeStates(_)
ModeStates(out) ==
    IF out = <<>> THEN <<>>
    ELSE (IF IsAnyMode(out[1]) THEN <<out[1].mode>> ELSE <<>>) \o ModeStates(Tail(out))

\* the mode and the state of every MODE event are among the seven modes
ModesTyped ==
    /\ it.mode \in Modes
    /\ \A i \in 1..Len(ret) : IsAnyMode(ret[i]) => ret[i].mode \in Modes

\* C18 as stated: every call returns at most one MODE event, and the mode
\* and every MODE event's state are among the seven modes.
C18_AtMostOneMode ==
    /\ Len(ModeStates(ret)) <= 1
    /\ ModesTyped

\* C18 amended: every call returns at most one MODE event, except the
\* frame of the tracking-lost recovery, which returns exactly MODE LOST then
\* MODE IDLE; the mode and every MODE event's state are among the seven
\* modes.
C18_OneModeOrLost ==
    /\ IF LostFrame THEN ModeStates(ret) = <<"LOST", "IDLE">>
       ELSE Len(ModeStates(ret)) <= 1
    /\ ModesTyped

\* a call returns one MODE event together with a button event
C18_Witness ==
    /\ ~LostFrame
    /\ Len(ModeStates(ret)) = 1
    /\ Len(ret) >= 2

\* the transitions between distinct modes that the interpreter makes:
\* _enter_contact, _enter_scroll, _enter_drag, _exit_contact, _exit_drag,
\* the exits of the SCROLL and DRAG_SCROLL branches, _enter_lost and
\* _enter_off from every mode, and the returns from LOST and OFF to IDLE
ModeEdges ==
    {<<"IDLE", "CONTACT">>, <<"IDLE", "SCROLL">>, <<"CONTACT", "DRAG">>,
     <<"CONTACT", "IDLE">>, <<"DRAG", "IDLE">>, <<"DRAG_SCROLL", "DRAG">>,
     <<"SCROLL", "IDLE">>, <<"LOST", "IDLE">>, <<"OFF", "IDLE">>}
        \cup {<<m, "LOST">> : m \in Modes \ {"LOST", "OFF"}}
        \cup {<<m, "OFF">> : m \in Modes \ {"OFF"}}

\* the mode before the call followed by the states of its MODE events
ModePath == <<call.pre_mode>> \o ModeStates(ret)

\* C19: after every call the mode is the state of the last MODE event
\* returned (the mode before the call if it returned none), every MODE
\* event is stamped with the call's t_ms, so that every change of mode comes
\* with one, and every MODE event's state differs from the state before it
\* and follows it by one transition of the state graph.
C19_ModeTrace ==
    /\ it.mode = ModePath[Len(ModePath)]
    /\ \A i \in 1..Len(ret) : IsAnyMode(ret[i]) => ret[i].t = clock
    /\ \A i \in 1..(Len(ModePath) - 1) :
            /\ ModePath[i] # ModePath[i + 1]
            /\ <<ModePath[i], ModePath[i + 1]>> \in ModeEdges

\* C20: the t_ms of the events returned in a session never decrease: not
\* within the list a call returns, and not from the last event of the earlier
\* calls to the first event of this one.
C20_MonotoneStamps ==
    /\ \A i, j \in 1..Len(ret) : i < j => ret[i].t <= ret[j].t
    /\ (ret # <<>> /\ call.pre_ev_t # NoneT) => call.pre_ev_t <= ret[1].t

\* C21: two interpreters built alike and given the same calls return the
\* same events from every call, whatever the wall clock reads when the calls
\* of either are made.
C21_Deterministic == scn.twin_ret = ret

\* the frame just processed ran an adaptation step: the adaptation
\* timestamp, set before, moved to this frame
AdaptStep ==
    /\ call.op = "process"
    /\ scn.pre_adapt # NoneT
    /\ it.last_adapt_ms # scn.pre_adapt

\* C22: after an adaptation step the index gate's p_on lies in p_on_range
\* and its p_off in p_off_range.
C22_AdaptInRange ==
    AdaptStep =>
        /\ it.index.p_on >= P_ON_MIN /\ it.index.p_on <= P_ON_MAX
        /\ it.index.p_off >= P_OFF_MIN /\ it.index.p_off <= P_OFF_MAX

\* an adaptation step that would take p_off below its range leaves it at
\* the lower end
C22_Witness ==
    /\ AdaptStep
    /\ call.pi = 0
    /\ scn.pre_off = P_OFF_MIN
    /\ it.index.p_off = P_OFF_MIN

\* C23: an adaptation step changes p_on and p_off each by no more than
\* max_shift_per_min * dt / 60000, dt being the time since the previous
\* adaptation timestamp (in millionths: dt / 6).
C23_AdaptRate ==
    AdaptStep =>
        /\ 6 * Abs(it.index.p_on - scn.pre_on) <= clock - scn.pre_adapt
        /\ 6 * Abs(it.index.p_off - scn.pre_off) <= clock - scn.pre_adapt

\* the frame just processed met the chord: IDLE, not blocked, the hand
\* calm, both committed gates on with down-timestamps within the window
ChordDue ==
    /\ call.op = "process" /\ ~call.pre_off
    /\ call.pre_mode = "IDLE"
    /\ clock >= scn.pre_block
    /\ it.index.state /\ it.middle.state /\ scn.calm
    /\ it.idx_down_ms # NoneT /\ it.mid_down_ms # NoneT
    /\ Abs(it.idx_down_ms - it.mid_down_ms) <= CHORD_WINDOW_MS

\* the frames less than RC_BLOCK_CHORD_MS after a RIGHT CLICK return
\* nothing while the chord is still held
ChordSilence ==
    (/\ call.op = "process"
     /\ scn.click_t # NoneT /\ scn.held
     /\ clock > scn.click_t
     /\ clock < scn.click_t + RC_BLOCK_CHORD_MS) => ret = <<>>

\* C24 as stated: one chord yields one RIGHT CLICK, none again while that
\* chord is still held, and the frames of the 180 ms after the click return
\* nothing while it is held.
C24_OneClickPerChord ==
    /\ ~scn.again
    /\ ChordSilence

\* C24 amended: a frame returns RIGHT CLICK (once, and nothing else) exactly
\* when it meets the chord, and blocks the chord for RC_BLOCK_CHORD_MS; the
\* frames within that time return nothing while the chord is held; a chord
\* still held after it therefore clicks again.
C24_ChordClick ==
    /\ ChordDue <=> Some(ret, IsRightClick)
    /\ ChordDue => /\ ret = <<ButtonEv(clock, "RIGHT", "CLICK")>>
                   /\ it.rc_block_until = clock + RC_BLOCK_CHORD_MS
                   /\ it.mode = "IDLE"
    /\ ChordSilence

\* a chord held past the block clicks a second time
C24_Witness ==
    /\ ChordDue /\ scn.again
    /\ scn.click_t = clock
    /\ Some(ret, IsRightClick)

\* C25: every frame of a zero-motion session returns the empty list and
\* leaves the mode IDLE.
C25_StillIsSilent ==
    call.op = "process" =>
        /\ ~raised
        /\ ret = <<>>
        /\ it.mode = "IDLE"

IsScrollMode(e) == IsMode(e, "SCROLL")

ScrollExit ==
    /\ call.op = "process"
    /\ call.valid
    /\ call.pre_mode = "SCROLL"
    /\ it.mode = "IDLE"

\* C27: a frame with a valid hand ends SCROLL only more than 150 ms after the
\* last frame in which the committed middle gate was on (the frame that
\* entered SCROLL included); it then returns MODE IDLE alone, forgets the
\* anchor, zeroes the remainder and blocks hover for 160 ms.
C27_StickyHold ==
    ScrollExit =>
        /\ clock - scn.last_mid_t > SCROLL_HOLD_MS
        /\ ret = <<ModeEv(clock, "IDLE")>>
        /\ it.scroll_anchor_y = NoneT
        /\ it.scroll_remainder = 0
        /\ it.hover_block_until = clock + SCROLL_EXIT_BLOCK_MS

\* dwell time the gate asks for before it leaves the state it was in
GateDwell == IF scn.was THEN scn.g.t_off_ms ELSE scn.g.t_on_ms

\* C28: an update changes the committed state only at the end of an unbroken
\* run of far-side values that has lasted the dwell time; an update whose
\* value is not on the far side changes nothing and clears the dwell timer,
\* and so does a value strictly between p_off and p_on.
C28_GateDwell ==
    /\ scn.changed =>
          /\ scn.run_start # NoneT
          /\ clock - scn.run_start >= GateDwell
    /\ (clock > 0 /\ scn.run_start = NoneT) =>
          /\ ~scn.changed
          /\ scn.g.candidate_since_ms = NoneT
          /\ scn.g.candidate_target = "None"
    /\ (clock > 0 /\ ~scn.changed /\ GateBetween(scn.g, scn.value)) =>
          /\ scn.g.state = scn.was
          /\ scn.g.candidate_since_ms = NoneT
    /\ (scn.run_open /\ ~scn.changed) => scn.g.candidate_since_ms = scn.run_start

\* the gate turns off at the end of a run that started after a fall-back
C28_Witness ==
    /\ scn.changed
    /\ scn.was
    /\ scn.run_start > 100
    /\ clock - scn.run_start >= GateDwell

\* a frame inside the settle window of the latest CONTACT entry
InSettleWindow ==
    /\ call.op = "process"
    /\ last_down_t # NoneT
    /\ clock < last_down_t + SETTLE_MS

\* C29: no frame inside the settle window returns a MOVE.
C29_NoMoveInWindow == InSettleWindow => ~Some(ret, IsMove)

\* a frame of the settle window finds the pinching hand moved and the mode
\* CONTACT
C29_Witness ==
    /\ InSettleWindow
    /\ clock > last_down_t
    /\ call.pre_mode = "CONTACT"
    /\ it.mode = "CONTACT"
    /\ scn.moved
    /\ ret = <<>>

ContactEnded ==
    /\ call.op = "process"
    /\ call.pre_mode \in {"CONTACT", "DRAG"}
    /\ it.mode = "IDLE"

\* C31: the frame that follows the end of a contact returns no MOVE: hover
\* starts afresh and only records where the hand is.
C31_NoJumpAfterContact == [][ContactEnded => ~Some(ret', IsMove)]_vars

\* C32: a frame that finds the interpreter on, in IDLE, before
\* rc_block_until returns no events and leaves the mode IDLE.
C32_BlockFirst ==
    [][(call'.op = "process" /\ it.mode = "IDLE" /\ ~it.off
            /\ clock' < it.rc_block_until)
          => (ret' = <<>> /\ it'.mode = "IDLE")]_vars

C34_SwitchOn ==
    /\ (call.op = "set_off" /\ ~call.off) =>
          IF call.pre_mode = "OFF"
          THEN ret = <<ModeEv(clock, "IDLE")>> /\ it.mode = "IDLE"
          ELSE /\ ret = <<>>
               /\ it.mode = call.pre_mode
               /\ it.left_down = call.pre_left
    /\ (it.mode = "OFF") <=> it.off
    /\ it.mode # "LOST"

\* set_off(false) during a contact changes nothing: LEFT stays held
C34_Witness ==
    /\ call.op = "set_off" /\ ~call.off
    /\ call.pre_mode = "CONTACT"
    /\ it.mode = "CONTACT"
    /\ it.left_down
    /\ ret = <<>>

\* C35: a CLICK applied while enabled makes the virtual mouse press and
\* release that button.
C35_ClickExpanded ==
    (scn.ev.type = "BUTTON" /\ scn.ev.action = "CLICK" /\ scn.r_enabled) =>
        scn.calls = IF scn.ev.name = "LEFT"
                    THEN <<MouseCall("button_left", 1, 0), MouseCall("button_left", 0, 0)>>
                    ELSE <<MouseCall("button_right", 1, 0),
                           MouseCall("button_right", 0, 0)>>

\* C40: once the hotkey listener is between key presses, the flag file the
\* runtime polls equals the daemon's ControlState.enabled.
C40_FlagFollowsControl == (scn.hk = "idle") => (scn.file = scn.d_enabled)

\* C36: while the committed ring gate stays on, at most one RIGHT DOWN is
\* returned, and every frame returns as many RIGHT UP as RIGHT DOWN.
C36_SingleTap ==
    /\ scn.taps <= 1
    /\ Count(ret, IsRightDown) = Cardinality({i \in 1..Len(ret) : IsButton(ret[i], "RIGHT", "UP")})

\* C37: a call that returns LEFT DOWN is a frame with a valid hand, taken
\* while on and not in SCROLL, with the committed middle gate off, and at
\* most PEAK_WINDOW_MS after a frame whose index pinch reached FAST_DOWN.
C37_LeftDownArmed ==
    Some(ret, IsLeftDown) =>
        /\ call.op = "process"
        /\ call.valid
        /\ ~call.pre_off
        /\ call.pre_mode # "SCROLL"
        /\ it.mode # "SCROLL"
        /\ ~call.middle_down
        /\ scn.strong_t # NoneT
        /\ clock - scn.strong_t <= PEAK_WINDOW_MS

C37_Witness ==
    /\ Some(ret, IsLeftDown)
    /\ call.pi < FAST_DOWN_DEFAULT
    /\ clock - scn.strong_t = 40

\* C38: at every call boundary LEFT is held exactly when the fast click
\* latch is set, and exactly when the mode is CONTACT or DRAG.
C38_HeldLatchedContact ==
    /\ it.left_down <=> it.fast_left_latched
    /\ it.left_down <=> (it.mode \in {"CONTACT", "DRAG"})

C38_Witness ==
    /\ call.op = "process"
    /\ call.pre_left
    /\ it.left_down
    /\ it.fast_left_latched
    /\ it.mode = "CONTACT"

\* C39: every SCROLL tick returned has the direction of the hand's
\* displacement from the anchor in that frame (up scrolls forward, reversed
\* by invert_y), and the fractional remainder stays strictly between -1 and
\* 1 tick.
C39_ImmediateDirection ==
    /\ \A i \in 1..Len(ret) :
           IsScroll(ret[i]) =>
               /\ call.scroll_y # NoneT
               /\ it.scroll_anchor_y # NoneT
               /\ (ret[i].dy > 0) <=>
                      ((108 * call.scroll_y < it.scroll_anchor_y) <=> ~it.invert_y)
    /\ Abs(it.scroll_remainder) < 2600

====
